---- MODULE Spec2Model ----
(***************************************************************************)
(* The store-information resolver of aliexpress-product-scraper:           *)
(* StoreInfo, StoreScraperRegistry and StoreScraperManager                 *)
(* (store_scraper_interface.py) and the two backends registered against    *)
(* it (traditional_store_scraper.py, mcp_store_scraper.py).                *)
(*                                                                         *)
(* Python values.  A str is a sequence of tokens (a token stands for a     *)
(* run of characters), so "" is << >> and concatenation is \o.  An         *)
(* Optional[str] is a record [some, val]: None has some = FALSE.           *)
(***************************************************************************)
EXTENDS Integers, Sequences, FiniteSets, TLC

VARIABLES
    si,             \* SpecInfo: the StoreInfo object under test
    si_pc,          \* SpecInfo: "none" | "constructed" | "evaluated"
    si_valid,       \* SpecInfo: the value the is_valid property returned
    ex_backend,     \* SpecTiers: the backend whose extraction runs
    ex_url,         \* SpecTiers: product_url of the extraction
    ex_pc,          \* SpecTiers: "idle" | "xpath" | "css" | "alternative" | "done"
    ex_calls,       \* SpecTiers: the tiers invoked so far, in invocation order
    ex_results,     \* SpecTiers: the StoreInfo each invoked tier returned
    ex_evals,       \* SpecTiers: how the page evaluation of each invoked tier ended
    ex_ret,         \* SpecTiers: what _extract_store_info_with_fallback returned
    scrapers,       \* StoreScraperRegistry._scrapers: method -> backend class
    instances,      \* StoreScraperRegistry._instances: method -> cached instance
    fallback_chain, \* StoreScraperManager.fallback_chain
    default_method, \* StoreScraperManager.default_method
    op,             \* the coroutine in progress: "idle" | "single" | "multi" (manager),
                    \* "legacy" (an adapter call that never reached the manager)
    call_pc,        \* its position: "idle" | "fanout" | "done" | "raised"
    arg_urls,       \* its URL argument(s), as a list
    arg_preferred,  \* its preferred_method argument
    arg_kwargs,     \* its **kwargs
    tasks,          \* the scrape_store_with_fallback executions of the call
    semaphore,      \* permits left in the asyncio.Semaphore of the per-URL path
    batch_calls,    \* the scrape_multiple_stores invocations made by the manager
    batch_outcome,  \* "none" | "returned" | "raised": how the batch call ended
    batch_map,      \* the mapping the backend's scrape_multiple_stores returned
    ret_map,        \* the mapping scrape_multiple_stores_with_fallback returned
    reg_calls,      \* SpecRegistry: the calls made on the registry, with their results
    bl_cls,         \* SpecBatchLoop: the backend class whose scrape_multiple_stores runs
    bl_urls,        \* SpecBatchLoop: its product_urls
    bl_kwargs,      \* SpecBatchLoop: its **kwargs
    bl_pc,          \* SpecBatchLoop: "idle" | "loop" | "done" | "raised"
    bl_i,           \* SpecBatchLoop: the loop variable i of range(0, N, batch_size)
    bl_events,      \* SpecBatchLoop: the batches processed and the delays slept, in order
    bl_kinds,       \* SpecBatchLoop: how the processing of each URL ended, by position
    bl_results,     \* SpecBatchLoop: the results dict
    ss_cls,         \* SpecSingle: the backend class whose scrape_single_store runs
    ss_url,         \* SpecSingle: its product_url
    ss_pc,          \* SpecSingle: "idle", the step about to run, or "done"
    ss_steps,       \* SpecSingle: the steps run so far, each with how it ended
    ss_info,        \* SpecSingle: store_info, once the extraction has returned
    ss_pending,     \* SpecSingle: the exception in flight while "finally" runs
    ss_outcome,     \* SpecSingle: "none" | "returned" | "raised"
    ss_ret,         \* SpecSingle: the StoreInfo returned
    tb_playwright,  \* SpecSession: TraditionalPlaywrightStoreScraper._playwright (0 is None)
    tb_browser,     \* SpecSession: its _browser (0 is None, else a browser launched)
    tb_context,     \* SpecSession: its _context (0 is None, else a context created)
    drivers,        \* SpecSession: the Playwright drivers started: "running" | "stopped"
    browsers,       \* SpecSession: the browsers launched: "connected" | "disconnected" | "closed"
    contexts,       \* SpecSession: the contexts created: their browser, and whether closed
    pages,          \* SpecSession: the pages opened: context, owner task, location, closed
    tk,             \* SpecSession: the coroutines running against the instance
    tb_calls,       \* SpecSession: the number of calls made on the instance
    mcp_page,       \* SpecMcp: the page the MCP browser functions act on
    mt,             \* SpecMcp: the scrape_single_store coroutines of one MCP batch
    lg_pc,          \* SpecLegacy: "idle" | "done", the adapter call
    lg_how,         \* SpecLegacy: "none" | "empty" | "returned" | "raised"
    lg_urls,        \* SpecLegacy: product_urls of the adapter call
    lg_ret,         \* SpecLegacy: what fetch_store_info_enhanced returned
    lg_single,      \* SpecLegacy: what fetch_single_store_info returned
    rt_s,           \* SpecDict: the StoreInfo that is serialised
    rt_dict,        \* SpecDict: the mapping to_dict returned
    rt_back,        \* SpecDict: the StoreInfo from_dict built from it
    rt_pc,          \* SpecDict: "none" | "constructed" | "dict" | "back"
    hr_href,        \* SpecHref: the href of the link handed to the store-id pattern
    hr_id,          \* SpecHref: storeId of the in-page script
    hr_url,         \* SpecHref: storeUrl of the in-page script
    hr_pc,          \* SpecHref: "none" | "linked" | "matched"
    gb_cls,         \* SpecGather: the backend whose scrape_multiple_stores runs
    gb_urls,        \* SpecGather: product_urls
    gb_bsize,       \* SpecGather: batch_size
    gb_pc,          \* SpecGather: "idle" | "gather" | "sleep" | "done"
    gb_i,           \* SpecGather: i of "for i in range(0, len(product_urls), batch_size)"
    gb_tasks,       \* SpecGather: the coroutines of the batch that is gathered
    gb_order,       \* SpecGather: the positions of the batch's tasks, as they ended
    gb_st,          \* SpecGather: per input position, "pending" | "running" | "done"
    gb_computed,    \* SpecGather: per input position, what its task ended with
    gb_slept,       \* SpecGather: the number of inter-batch delays that elapsed
    gb_results,     \* SpecGather: results
    rs_products,    \* SpecRetry: products of retry_store_information
    rs_methods,     \* SpecRetry: methods, from list_available_methods()
    rs_max,         \* SpecRetry: max_retries
    rs_bsize,       \* SpecRetry: batch_size
    rs_pc,          \* SpecRetry: "idle" | "gather" | "sleep" | "done" | "raised"
    rs_i,           \* SpecRetry: i of "for i in range(0, len(products), batch_size)"
    rs_tasks,       \* SpecRetry: the retry_single_product_store tasks of the batch
    rs_calls,       \* SpecRetry: per product, the scrape_store_with_fallback calls made for it
    rs_updated,     \* SpecRetry: updated_products
    aw_ids,         \* SpecWrapper: product_ids of async_fetch_store_info_batch
    aw_urls,        \* SpecWrapper: product_urls
    aw_results,     \* SpecWrapper: results, what fetch_store_info_enhanced returned
    aw_final,       \* SpecWrapper: final_results
    aw_pc           \* SpecWrapper: "idle" | "fetch" | "convert" | "done"

varsDict == <<rt_s, rt_dict, rt_back, rt_pc>>

varsHref == <<hr_href, hr_id, hr_url, hr_pc>>

varsGather == <<gb_cls, gb_urls, gb_bsize, gb_pc, gb_i, gb_tasks, gb_order,
                gb_st, gb_computed, gb_slept, gb_results>>

\* the state of the specifications added after SpecHref
varsRetry == <<rs_products, rs_methods, rs_max, rs_bsize, rs_pc, rs_i, rs_tasks,
               rs_calls, rs_updated>>

varsWrapper == <<aw_ids, aw_urls, aw_results, aw_final, aw_pc>>

varsLate == <<varsGather, varsRetry, varsWrapper>>

\* the state of the specifications of the pure functions and the later ones
varsPure == <<varsDict, varsHref, varsLate>>

varsInfo == <<si, si_pc, si_valid, varsPure>>

varsTiers == <<ex_backend, ex_url, ex_pc, ex_calls, ex_results, ex_evals, ex_ret>>

varsRegistry == <<scrapers, instances>>

varsConfig == <<fallback_chain, default_method>>

varsCall == <<op, call_pc, arg_urls, arg_preferred, arg_kwargs, tasks,
              semaphore, batch_calls, batch_outcome, batch_map, ret_map>>

varsManager == <<scrapers, instances, fallback_chain, default_method,
                 op, call_pc, arg_urls, arg_preferred, arg_kwargs, tasks,
                 semaphore, batch_calls, batch_outcome, batch_map, ret_map>>

\* the state of the calls made directly on the registry and on a backend
varsLoop == <<bl_cls, bl_urls, bl_kwargs, bl_pc, bl_i, bl_events, bl_kinds,
              bl_results>>

varsSingle == <<ss_cls, ss_url, ss_pc, ss_steps, ss_info, ss_pending, ss_outcome,
                ss_ret>>

\* the traditional backend's session and the MCP browser under concurrent tasks
varsSession == <<tb_playwright, tb_browser, tb_context, drivers, browsers,
                 contexts, pages, tk, tb_calls>>

varsMcp == <<mcp_page, mt>>

varsLegacy == <<lg_pc, lg_how, lg_urls, lg_ret, lg_single>>

varsConc == <<varsSession, varsMcp, varsLegacy>>

varsDirect == <<reg_calls, varsLoop, varsSingle, varsConc>>

\* the state of everything but the concurrent backends and the adapter
varsOld == <<reg_calls, varsLoop, varsSingle, varsManager, varsInfo, varsTiers>>

vars == <<si, si_pc, si_valid,
          ex_backend, ex_url, ex_pc, ex_calls, ex_results, ex_evals, ex_ret,
          scrapers, instances, fallback_chain, default_method,
          op, call_pc, arg_urls, arg_preferred, arg_kwargs, tasks,
          semaphore, batch_calls, batch_outcome, batch_map, ret_map,
          reg_calls,
          bl_cls, bl_urls, bl_kwargs, bl_pc, bl_i, bl_events, bl_kinds, bl_results,
          ss_cls, ss_url, ss_pc, ss_steps, ss_info, ss_pending, ss_outcome, ss_ret,
          tb_playwright, tb_browser, tb_context, drivers, browsers, contexts,
          pages, tk, tb_calls, mcp_page, mt,
          lg_pc, lg_how, lg_urls, lg_ret, lg_single,
          rt_s, rt_dict, rt_back, rt_pc, hr_href, hr_id, hr_url, hr_pc,
          gb_cls, gb_urls, gb_bsize, gb_pc, gb_i, gb_tasks, gb_order,
          gb_st, gb_computed, gb_slept, gb_results,
          rs_products, rs_methods, rs_max, rs_bsize, rs_pc, rs_i, rs_tasks,
          rs_calls, rs_updated,
          aw_ids, aw_urls, aw_results, aw_final, aw_pc>>

-----------------------------------------------------------------------------
(* Python values *)

None == [some |-> FALSE, val |-> << >>]

Str(t) == [some |-> TRUE, val |-> t]

\* bool(x) of an Optional[str]: None and "" are falsy
Truthy(x) == x.some /\ x.val # << >>

\* x or y
PyOr(x, y) == IF Truthy(x) THEN x ELSE y

\* str(x) / f"{x}" of an Optional[str]: None prints as "None"
StrOf(x) == IF x.some THEN x.val ELSE <<"None">>

-----------------------------------------------------------------------------
(* StoreInfo *)

\* StoreInfo.__init__: every field defaults to None, metadata to {}
StoreInfo(name, id, url, source, method, error, metadata) ==
    [store_name |-> name, store_id |-> id, store_url |-> url,
     source_url |-> source, extraction_method |-> method, error |-> error,
     metadata |-> metadata]

NoMetadata == << >>

NoInfo ==
    [store_name |-> None, store_id |-> None, store_url |-> None,
     source_url |-> None, extraction_method |-> None, error |-> None,
     metadata |-> NoMetadata]

\* a plausible slip of is_valid: only the name counts
is_valid_name_only(s) == Truthy(s.store_name) /\ ~Truthy(s.error)

\* StoreInfo.is_valid: bool(self.store_name or self.store_id) and not self.error
is_valid(s) == Truthy(PyOr(s.store_name, s.store_id)) /\ ~Truthy(s.error)

-----------------------------------------------------------------------------
(* SpecInfo: StoreInfo objects built from every combination of fields *)

FieldValues == {None, Str(<< >>), Str(<<"x">>)}

UrlValues == {None, Str(<<"https://x.com/store/998877">>)}

InfoInit ==
    /\ si = NoInfo
    /\ si_pc = "none"
    /\ si_valid = FALSE

\* StoreInfo(store_name=.., store_id=.., store_url=.., error=..)
Construct ==
    /\ si_pc = "none"
    /\ \E name \in FieldValues, id \in FieldValues, url \in UrlValues,
          error \in FieldValues :
          si' = StoreInfo(name, id, url, None, None, error, NoMetadata)
    /\ si_pc' = "constructed"
    /\ UNCHANGED si_valid
    /\ UNCHANGED varsPure
    /\ UNCHANGED varsTiers
    /\ UNCHANGED varsManager
    /\ UNCHANGED varsDirect

\* reading the is_valid property
EvalIsValid ==
    /\ si_pc = "constructed"
    /\ si_valid' = is_valid(si)
    /\ si_pc' = "evaluated"
    /\ UNCHANGED si
    /\ UNCHANGED varsPure
    /\ UNCHANGED varsTiers
    /\ UNCHANGED varsManager
    /\ UNCHANGED varsDirect

-----------------------------------------------------------------------------
(* SpecDict: StoreInfo.to_dict and StoreInfo.from_dict *)

\* a dict as a Python value; a dict is the sequence of its (key, value) pairs
PyDict(m) == [some |-> TRUE, val |-> m]

\* StoreInfo.__init__ called with every argument: self.metadata = metadata or {}
NewStoreInfo(name, id, url, source, method, error, metadata) ==
    StoreInfo(name, id, url, source, method, error,
              PyOr(metadata, PyDict(NoMetadata)).val)

\* data.get(key, default)
Get(data, key, default) == IF key \in DOMAIN data THEN data[key] ELSE default

\* a plausible slip of to_dict: the "error" key is left out
to_dict_NoError(s) ==
    [store_name |-> s.store_name, store_id |-> s.store_id,
     store_url |-> s.store_url, source_url |-> s.source_url,
     extraction_method |-> s.extraction_method,
     metadata |-> PyDict(s.metadata)]

\* StoreInfo.to_dict: the seven attributes under their own names
to_dict(s) ==
    [store_name |-> s.store_name, store_id |-> s.store_id,
     store_url |-> s.store_url, source_url |-> s.source_url,
     extraction_method |-> s.extraction_method, error |-> s.error,
     metadata |-> PyDict(s.metadata)]

\* StoreInfo.from_dict: cls(store_name=data.get("store_name"), ...,
\* metadata=data.get("metadata", {}))
from_dict(data) ==
    NewStoreInfo(Get(data, "store_name", None), Get(data, "store_id", None),
                 Get(data, "store_url", None), Get(data, "source_url", None),
                 Get(data, "extraction_method", None), Get(data, "error", None),
                 Get(data, "metadata", PyDict(NoMetadata)))

\* the metadata arguments the constructor is called with
MetadataValues ==
    {None, PyDict(NoMetadata),
     PyDict(<<<<"css_selector", ".store-name">>>>),
     PyDict(<<<<"method", "store_link">>>>)}

SourceValues == {None, Str(<<"https://ali/item/1.html">>)}

MethodValues == {None, Str(<<"traditional_playwright", "_", "css">>)}

NoDict == << >>

DictInit ==
    /\ rt_s = NoInfo
    /\ rt_dict = NoDict
    /\ rt_back = NoInfo
    /\ rt_pc = "none"

\* StoreInfo(store_name=.., .., metadata=..)
ConstructAny ==
    /\ rt_pc = "none"
    /\ \E name \in FieldValues, id \in FieldValues, url \in UrlValues,
          source \in SourceValues, method \in MethodValues,
          error \in FieldValues, metadata \in MetadataValues :
          rt_s' = NewStoreInfo(name, id, url, source, method, error, metadata)
    /\ rt_pc' = "constructed"
    /\ UNCHANGED <<rt_dict, rt_back>>
    /\ UNCHANGED <<si, si_pc, si_valid, varsHref, varsLate>>
    /\ UNCHANGED varsTiers
    /\ UNCHANGED varsManager
    /\ UNCHANGED varsDirect

\* d = s.to_dict()
ToDict ==
    /\ rt_pc = "constructed"
    /\ rt_dict' = to_dict(rt_s)
    /\ rt_pc' = "dict"
    /\ UNCHANGED <<rt_s, rt_back>>
    /\ UNCHANGED <<si, si_pc, si_valid, varsHref, varsLate>>
    /\ UNCHANGED varsTiers
    /\ UNCHANGED varsManager
    /\ UNCHANGED varsDirect

\* StoreInfo.from_dict(d)
FromDict ==
    /\ rt_pc = "dict"
    /\ rt_back' = from_dict(rt_dict)
    /\ rt_pc' = "back"
    /\ UNCHANGED <<rt_s, rt_dict>>
    /\ UNCHANGED <<si, si_pc, si_valid, varsHref, varsLate>>
    /\ UNCHANGED varsTiers
    /\ UNCHANGED varsManager
    /\ UNCHANGED varsDirect

-----------------------------------------------------------------------------
(* SpecHref: the store-id pattern of the in-page scripts.  An href is a    *)
(* sequence of characters here, each a string of length one.               *)

Digits == {"0", "1", "2", "3", "4", "5", "6", "7", "8", "9"}

\* the literal part of /store\/([0-9]+)/
StoreSlash == <<"s", "t", "o", "r", "e", "/">>

ExampleHref ==
    <<"h", "t", "t", "p", "s", ":", "/", "/", "x", ".", "c", "o", "m", "/">> \o StoreSlash
    \o <<"9", "9", "8", "8", "7", "7">> \o <<"?", "f", "o", "o", "=", "1">>

\* the pieces the hrefs under test are put together from
HrefPieces ==
    {<<"h", "t", "t", "p", "s", ":", "/", "/", "x", ".", "c", "o", "m", "/">>,
     StoreSlash, <<"9", "9", "8", "8", "7", "7">>, <<"?", "f", "o", "o", "=", "1">>,
     <<"s", "t", "o", "r">>, <<"e", "/">>, <<"0">>, <<"x">>}

MaxPieces == 4

RECURSIVE Hrefs(_)
\* every concatenation of at most n pieces
Hrefs(n) ==
    IF n = 0 THEN {<< >>}
    ELSE LET shorter == Hrefs(n - 1)
         IN  shorter \cup {h \o p : h \in shorter, p \in HrefPieces}

\* element.closest('a')?.href: undefined when there is no enclosing link
LinkValues == {None} \cup {Str(h) : h \in Hrefs(MaxPieces)}

\* [0-9]
IsDigit(c) == c \in Digits

\* the pattern matches with its first character at position i
MatchesAt(h, i) ==
    /\ i + 6 <= Len(h)
    /\ SubSeq(h, i, i + 5) = StoreSlash
    /\ IsDigit(h[i + 6])

\* String.prototype.match without the g flag: the leftmost position at which
\* the pattern matches, 0 when it matches nowhere
FirstMatch(h) ==
    IF \E i \in 1..Len(h) : MatchesAt(h, i)
    THEN CHOOSE i \in 1..Len(h) :
            MatchesAt(h, i) /\ \A j \in 1..(i - 1) : ~MatchesAt(h, j)
    ELSE 0

\* a plausible slip of the pattern: [0-9] in place of [0-9]+
DigitsEnd_OneDigit(h, j) == j

RECURSIVE DigitsEnd(_, _)
\* [0-9]+ is greedy: the last position of the run of digits that starts at j
DigitsEnd(h, j) ==
    IF j < Len(h) /\ IsDigit(h[j + 1]) THEN DigitsEnd(h, j + 1) ELSE j

\* storeLink.match(/store\/([0-9]+)/): storeIdMatch[1], None for a null match
StoreIdMatch(h) ==
    LET i == FirstMatch(h)
    IN  IF i = 0 THEN None ELSE Str(SubSeq(h, i + 6, DigitsEnd(h, i + 6)))

\* let storeId = null; if (storeLink) { ...; if (storeIdMatch) storeId = storeIdMatch[1] }
ScriptStoreId(link) == IF Truthy(link) THEN StoreIdMatch(link.val) ELSE None

\* let storeUrl = null; ... if (storeIdMatch) storeUrl = storeLink
ScriptStoreUrl(link) ==
    IF Truthy(link) /\ StoreIdMatch(link.val).some THEN link ELSE None

HrefInit ==
    /\ hr_href = None
    /\ hr_id = None
    /\ hr_url = None
    /\ hr_pc = "none"

\* const storeLink = element.closest('a')?.href
FindLink ==
    /\ hr_pc = "none"
    /\ hr_href' \in LinkValues
    /\ hr_pc' = "linked"
    /\ UNCHANGED <<hr_id, hr_url>>
    /\ UNCHANGED <<si, si_pc, si_valid, varsDict, varsLate>>
    /\ UNCHANGED varsTiers
    /\ UNCHANGED varsManager
    /\ UNCHANGED varsDirect

\* the script sets storeId and storeUrl from the link
MatchStoreId ==
    /\ hr_pc = "linked"
    /\ hr_id' = ScriptStoreId(hr_href)
    /\ hr_url' = ScriptStoreUrl(hr_href)
    /\ hr_pc' = "matched"
    /\ UNCHANGED hr_href
    /\ UNCHANGED <<si, si_pc, si_valid, varsDict, varsLate>>
    /\ UNCHANGED varsTiers
    /\ UNCHANGED varsManager
    /\ UNCHANGED varsDirect

-----------------------------------------------------------------------------
(* The three extraction tiers of a backend, run against one loaded page *)

\* the two backends of the repository, named by the prefix of their tags
Backends == {"traditional_playwright", "mcp_playwright"}

ProductUrls == {<<"https://ali/item/1.html">>, <<"https://ali/item/2.html">>}

StoreLink == <<"https://x.com/store/", "998877", "?foo=1">>

\* What the in-page script of a tier can hand back (or do):
\*   raise    - page.evaluate / mcp_playwright_browser_evaluate raised
\*   falsy    - the call returned None (or an empty dict)
\*   notfound - {found: false}
\*   found    - {found: true, store_name, store_id, store_url, ...}
EvalRaise(msg) ==
    [kind |-> "raise", msg |-> msg, name |-> None, id |-> None, url |-> None,
     meta |-> NoMetadata]

EvalPlain(kind) ==
    [kind |-> kind, msg |-> << >>, name |-> None, id |-> None, url |-> None,
     meta |-> NoMetadata]

EvalFound(name, id, url, meta) ==
    [kind |-> "found", msg |-> << >>, name |-> name, id |-> id, url |-> url,
     meta |-> meta]

ExceptionMessages == {<< >>, <<"Timeout 10000ms exceeded">>}

\* the XPath script: the element's trimmed text (which may be empty) and, if
\* its enclosing link matches store/<digits>, the id and the link
XPathEvals ==
    {EvalRaise(m) : m \in ExceptionMessages}
    \cup {EvalPlain("falsy"), EvalPlain("notfound")}
    \cup {EvalFound(Str(n), None, None, NoMetadata) : n \in {<< >>, <<"Shop">>}}
    \cup {EvalFound(Str(n), Str(<<"998877">>), Str(StoreLink), NoMetadata) :
            n \in {<< >>, <<"Shop">>}}

\* the CSS script returns only on a selector with non-empty text
CssEvals ==
    {EvalRaise(m) : m \in ExceptionMessages}
    \cup {EvalPlain("falsy"), EvalPlain("notfound")}
    \cup {EvalFound(Str(<<"Shop">>), None, None,
                    <<<<"css_selector", ".store-name">>>>),
          EvalFound(Str(<<"Shop">>), Str(<<"998877">>), Str(StoreLink),
                    <<<<"css_selector", ".store-name">>>>)}

\* the alternative script returns only with a text and a matched store id
AlternativeEvals ==
    {EvalRaise(m) : m \in ExceptionMessages}
    \cup {EvalPlain("falsy"), EvalPlain("notfound")}
    \cup {EvalFound(Str(<<"Shop">>), Str(<<"998877">>), Str(StoreLink),
                    <<<<"method", how>>>>) : how \in {"store_link", "breadcrumb"}}

TierEvals(tier) ==
    CASE tier = "xpath" -> XPathEvals
      [] tier = "css" -> CssEvals
      [] OTHER -> AlternativeEvals

TierNotFoundError(tier) ==
    CASE tier = "xpath" -> <<"XPath selector did not find store element">>
      [] tier = "css" -> <<"CSS selectors did not find store element">>
      [] OTHER -> <<"Alternative methods did not find store element">>

TierErrorPrefix(tier) ==
    CASE tier = "xpath" -> <<"XPath extraction error: ">>
      [] tier = "css" -> <<"CSS extraction error: ">>
      [] OTHER -> <<"Alternative extraction error: ">>

\* a plausible slip: the except clause of a tier reports the exception under
\* the tag of a selector that found nothing
TierResult_RaiseAsFailed(backend, tier, url, ev) ==
    IF ev.kind = "found"
    THEN StoreInfo(ev.name, ev.id, ev.url, Str(url),
                   Str(<<backend, "_", tier>>), None, ev.meta)
    ELSE StoreInfo(None, None, None, Str(url),
                   Str(<<backend, "_", tier, "_failed">>),
                   Str(TierNotFoundError(tier)), NoMetadata)

\* _extract_store_name_with_xpath / _with_css / _alternative: the try block
\* around the evaluation, and the StoreInfo built from its outcome
TierResult(backend, tier, url, ev) ==
    IF ev.kind = "raise"
    THEN StoreInfo(None, None, None, Str(url),
                   Str(<<backend, "_", tier, "_error">>),
                   Str(TierErrorPrefix(tier) \o ev.msg), NoMetadata)
    ELSE IF ev.kind = "found"
    THEN StoreInfo(ev.name, ev.id, ev.url, Str(url),
                   Str(<<backend, "_", tier>>), None, ev.meta)
    ELSE StoreInfo(None, None, None, Str(url),
                   Str(<<backend, "_", tier, "_failed">>),
                   Str(TierNotFoundError(tier)), NoMetadata)

\* the StoreInfo returned when no tier was valid
AllFailedInfo(backend, url) ==
    StoreInfo(None, None, None, Str(url), Str(<<backend, "_all_failed">>),
              Str(<<"All extraction methods failed to find store information">>),
              NoMetadata)

\* a plausible slip: the result of the XPath tier is not checked before the
\* CSS tier is run
ExtractNextPc_UncheckedXPath(tier, info) ==
    CASE tier = "xpath" -> "css"
      [] tier = "css" -> IF is_valid(info) THEN "done" ELSE "alternative"
      [] OTHER -> "done"

\* _extract_store_info_with_fallback: where control goes after a tier returned
ExtractNextPc(tier, info) ==
    IF is_valid(info) THEN "done"
    ELSE CASE tier = "xpath" -> "css"
           [] tier = "css" -> "alternative"
           [] OTHER -> "done"

\* a plausible slip: the result of the last tier is handed back as it is
ExtractReturn_LastTier(backend, url, info) == info

\* _extract_store_info_with_fallback: what it returns once control is "done"
ExtractReturn(backend, url, info) ==
    IF is_valid(info) THEN info ELSE AllFailedInfo(backend, url)

TierNumber(tier) ==
    CASE tier = "xpath" -> 1 [] tier = "css" -> 2 [] OTHER -> 3

TiersInit ==
    /\ ex_backend = "traditional_playwright"
    /\ ex_url = << >>
    /\ ex_pc = "idle"
    /\ ex_calls = << >>
    /\ ex_results = << >>
    /\ ex_evals = << >>
    /\ ex_ret = NoInfo

\* a call of _extract_store_info_with_fallback(product_url) on a backend
ExtractStart ==
    /\ ex_pc = "idle"
    /\ \E b \in Backends, u \in ProductUrls :
          /\ ex_backend' = b
          /\ ex_url' = u
    /\ ex_pc' = "xpath"
    /\ UNCHANGED <<ex_calls, ex_results, ex_evals, ex_ret>>
    /\ UNCHANGED varsInfo
    /\ UNCHANGED varsManager
    /\ UNCHANGED varsDirect

\* one tier is awaited and its result examined
ExtractTier ==
    /\ ex_pc \in {"xpath", "css", "alternative"}
    /\ \E ev \in TierEvals(ex_pc) :
          LET info == TierResult(ex_backend, ex_pc, ex_url, ev)
              next == ExtractNextPc(ex_pc, info)
          IN  /\ ex_calls' = Append(ex_calls, TierNumber(ex_pc))
              /\ ex_results' = Append(ex_results, info)
              /\ ex_evals' = Append(ex_evals, ev.kind)
              /\ ex_pc' = next
              /\ ex_ret' = IF next = "done"
                           THEN ExtractReturn(ex_backend, ex_url, info)
                           ELSE ex_ret
    /\ UNCHANGED <<ex_backend, ex_url>>
    /\ UNCHANGED varsInfo
    /\ UNCHANGED varsManager
    /\ UNCHANGED varsDirect

-----------------------------------------------------------------------------
(* StoreScrapingMethod, the registry and the backends behind it *)

\* StoreScrapingMethod: the values of the enumeration
Methods ==
    {"mcp_playwright", "traditional_playwright", "requests_based", "selenium",
     "captcha_solver"}

\* None, where a StoreScrapingMethod | None is expected
NoMethod == "None"

\* the methods configuration and calls draw from
ChainMethods == {"mcp_playwright", "traditional_playwright", "requests_based"}

MCPClass == "MCPPlaywrightStoreScraper"

TraditionalClass == "TraditionalPlaywrightStoreScraper"

\* some other implementation of the abstract StoreScraperInterface
OtherClass == "StoreScraperInterface"

NoClass == "NoClass"

\* **kwargs of a manager call: only batch_size is read by the code modelled
Kwargs(has, size) == [has_batch_size |-> has, batch_size |-> size]

NoKwargs == [has_batch_size |-> FALSE, batch_size |-> 0]

\* kwargs.get("batch_size", default)
KwargsBatchSize(kwargs, default) ==
    IF kwargs.has_batch_size THEN kwargs.batch_size ELSE default

NoInstance == [cls |-> NoClass, kwargs |-> NoKwargs]

\* a plausible slip: every method of the enumeration counts as available
list_available_methods_All == Methods

\* StoreScraperRegistry.list_available_methods
list_available_methods == {m \in Methods : scrapers[m] # NoClass}

\* the prefix a backend class gives its extraction_method tags
ClassPrefix(cls) ==
    CASE cls = MCPClass -> "mcp_playwright"
      [] cls = TraditionalClass -> "traditional_playwright"
      [] OTHER -> "other"

\* supports_batch_processing: True for both backends of the repository
SupportsBatch(cls) == cls \in {MCPClass, TraditionalClass}

\* scraper_class(**kwargs): both backends of the repository accept any
\* keyword; another implementation's constructor may raise
ConstructRaises(cls) ==
    IF cls = OtherClass THEN {<<"unexpected keyword argument">>} ELSE { }

\* a StoreInfo a successful extraction returns
FoundInfo(prefix, url) ==
    StoreInfo(Str(<<"Shop">>), Str(<<"998877">>), Str(StoreLink), Str(url),
              Str(<<prefix, "_", "xpath">>), None, NoMetadata)

\* scrape_single_store's except branch: the failure as a StoreInfo
BackendErrorInfo(prefix, url, msg) ==
    StoreInfo(None, None, None, Str(url), Str(<<prefix, "_error">>),
              Str(<<"Error scraping store info from ">> \o url \o <<": ">> \o msg),
              NoMetadata)

NavigationErrors == {<<"MCP Playwright functions not available">>}

\* What awaiting scrape_single_store(url) on an instance of cls can do.  The
\* two backends of the repository return the extraction result or, from their
\* except branch, an error StoreInfo; another implementation may return a
\* StoreInfo with neither data nor error, or raise.
SingleOutcomes(cls, url) ==
    IF cls = OtherClass
    THEN {[kind |-> "return", info |-> FoundInfo("other", url), msg |-> << >>],
          [kind |-> "return",
           info |-> StoreInfo(None, None, None, Str(url), None, None, NoMetadata),
           msg |-> << >>],
          [kind |-> "raise", info |-> NoInfo, msg |-> <<"boom">>]}
    ELSE {[kind |-> "return", info |-> FoundInfo(ClassPrefix(cls), url),
           msg |-> << >>],
          [kind |-> "return", info |-> AllFailedInfo(ClassPrefix(cls), url),
           msg |-> << >>]}
         \cup {[kind |-> "return",
                info |-> BackendErrorInfo(ClassPrefix(cls), url, m),
                msg |-> << >>] : m \in NavigationErrors}

\* asyncio.CancelledError out of an await: not an Exception, so no except
\* clause of the manager catches it
CancelOutcome == [kind |-> "cancel", info |-> NoInfo, msg |-> << >>]

-----------------------------------------------------------------------------
(* StoreScraperManager: configuration and the candidate order *)

Range(seq) == {seq[i] : i \in 1..Len(seq)}

RECURSIVE DedupFrom(_, _, _)
\* the loop "for method in methods_to_try: if method not in seen: ..."
DedupFrom(seq, i, acc) ==
    IF i > Len(seq) THEN acc
    ELSE DedupFrom(seq, i + 1,
                   IF seq[i] \in Range(acc) THEN acc ELSE Append(acc, seq[i]))

RECURSIVE DedupKeepLastFrom(_, _, _)
DedupKeepLastFrom(seq, i, acc) ==
    IF i > Len(seq) THEN acc
    ELSE DedupKeepLastFrom(seq, i + 1,
            Append(SelectSeq(acc, LAMBDA m : m # seq[i]), seq[i]))

\* a plausible slip of the deduplication: the last occurrence is the one kept
UniqueMethods_KeepLast(methods_to_try) ==
    DedupKeepLastFrom(methods_to_try, 1, << >>)

\* unique_methods: methods_to_try without later duplicates
UniqueMethods(methods_to_try) == DedupFrom(methods_to_try, 1, << >>)

\* methods_to_try: the preferred method, else the default method, then the
\* fallback chain
MethodsToTry(preferred, default, chain) ==
    (IF preferred # NoMethod THEN <<preferred>>
     ELSE IF default # NoMethod THEN <<default>>
     ELSE << >>) \o chain

\* the longest fallback chain set_fallback_chain is given
MaxChainLen == 4

\* the longest URL list scrape_multiple_stores_with_fallback is given
MaxUrls == 2

\* asyncio.Semaphore(3)
SemaphoreLimit == 3

Chains == UNION {[1..n -> ChainMethods] : n \in 0..MaxChainLen}

FirstUrl == <<"https://ali/item/1.html">>

\* the lists of at most MaxUrls URLs, duplicates included; the two URLs are
\* interchangeable, so a non-empty list starts with the first
UrlLists ==
    {urls \in UNION {[1..n -> ProductUrls] : n \in 0..MaxUrls} :
        urls # << >> => urls[1] = FirstUrl}

\* the preferred_method arguments of the batch calls
MultiPreferred == {NoMethod, "traditional_playwright"}

EmptyMap == [u \in { } |-> NoInfo]

\* results[url] = store_info
MapPut(map, key, value) ==
    [k \in DOMAIN map \cup {key} |-> IF k = key THEN value ELSE map[k]]

CallInit ==
    /\ op = "idle"
    /\ call_pc = "idle"
    /\ arg_urls = << >>
    /\ arg_preferred = NoMethod
    /\ arg_kwargs = NoKwargs
    /\ tasks = << >>
    /\ semaphore = 0
    /\ batch_calls = << >>
    /\ batch_outcome = "none"
    /\ batch_map = EmptyMap
    /\ ret_map = EmptyMap

\* StoreScraperRegistry() and StoreScraperManager(registry)
ManagerInit ==
    /\ scrapers = [m \in Methods |-> NoClass]
    /\ instances = [m \in Methods |-> NoInstance]
    /\ fallback_chain = << >>
    /\ default_method = NoMethod
    /\ CallInit

\* a plausible slip: a registration drops the instance cached for the method
register_Evict(method, scraper_class) ==
    /\ scrapers' = [scrapers EXCEPT ![method] = scraper_class]
    /\ instances' = [instances EXCEPT ![method] = NoInstance]

\* a plausible slip: a registration never replaces an earlier one
register_FirstWins(method, scraper_class) ==
    /\ scrapers' = IF scrapers[method] = NoClass
                   THEN [scrapers EXCEPT ![method] = scraper_class]
                   ELSE scrapers
    /\ UNCHANGED instances

\* StoreScraperRegistry.register(method, scraper_class)
register(method, scraper_class) ==
    /\ scrapers' = [scrapers EXCEPT ![method] = scraper_class]
    /\ UNCHANGED instances

\* @register_store_scraper(...): importing a backend module registers it
RegisterBackend ==
    /\ op = "idle"
    /\ \E r \in {<<"mcp_playwright", MCPClass>>,
                 <<"traditional_playwright", TraditionalClass>>} :
          register(r[1], r[2])
    /\ UNCHANGED <<varsConfig, varsCall, varsInfo, varsTiers>>
    /\ UNCHANGED varsDirect

\* registry.register(...) of another implementation of the interface
RegisterOther ==
    /\ op = "idle"
    /\ register("requests_based", OtherClass)
    /\ UNCHANGED <<varsConfig, varsCall, varsInfo, varsTiers>>
    /\ UNCHANGED varsDirect

\* StoreScraperManager.set_default_method
SetDefaultMethod ==
    /\ op = "idle"
    /\ \E m \in ChainMethods : default_method' = m
    /\ UNCHANGED <<fallback_chain, varsRegistry, varsCall, varsInfo, varsTiers>>
    /\ UNCHANGED varsDirect

\* StoreScraperManager.set_fallback_chain: self.fallback_chain = methods.copy()
SetFallbackChain ==
    /\ op = "idle"
    /\ \E methods \in Chains : fallback_chain' = methods
    /\ UNCHANGED <<default_method, varsRegistry, varsCall, varsInfo, varsTiers>>
    /\ UNCHANGED varsDirect

\* setup_default_fallback_chain()
SetupDefaultFallbackChain ==
    /\ op = "idle"
    /\ fallback_chain' = <<"mcp_playwright", "captcha_solver",
                           "traditional_playwright", "requests_based">>
    /\ default_method' = "mcp_playwright"
    /\ UNCHANGED <<varsRegistry, varsCall, varsInfo, varsTiers>>
    /\ UNCHANGED varsDirect

-----------------------------------------------------------------------------
(* StoreScraperManager.scrape_store_with_fallback *)

\* the state of one execution of scrape_store_with_fallback(url, preferred)
NewTask(url, pc, preferred) ==
    [url |-> url, pc |-> pc,
     unique_methods |->
        UniqueMethods(MethodsToTry(preferred, default_method, fallback_chain)),
     idx |-> 1, last_error |-> None, attempts |-> << >>, result |-> NoInfo]

\* what one pass of "for method in unique_methods" over a registered method
\* can meet: the constructor raising in get_scraper (only while no instance
\* is cached), or an outcome of scrape_single_store
AttemptOutcomes(method, url) ==
    (IF instances[method] = NoInstance
     THEN {[kind |-> "construct_raise", info |-> NoInfo, msg |-> m] :
             m \in ConstructRaises(scrapers[method])}
     ELSE { })
    \cup SingleOutcomes(scrapers[method], url)
    \cup (IF op = "multi" THEN {CancelOutcome} ELSE { })

Logged(T, method, o) ==
    [T EXCEPT !.attempts = Append(@, [method |-> method, kind |-> o.kind,
                                      info |-> o.info, msg |-> o.msg])]

\* a plausible slip: a valid result is recorded but the loop goes on
AfterReturn_NoEarlyReturn(T, info) ==
    IF is_valid(info)
    THEN [T EXCEPT !.result = info, !.idx = @ + 1]
    ELSE [T EXCEPT !.last_error =
                      PyOr(info.error, Str(<<"No valid store data returned">>)),
                   !.idx = @ + 1]

\* lines 240-245: a valid result is returned at once, any other result is
\* recorded as the last error
AfterReturn(T, info) ==
    IF is_valid(info)
    THEN [T EXCEPT !.pc = "returned", !.result = info]
    ELSE [T EXCEPT !.last_error =
                      PyOr(info.error, Str(<<"No valid store data returned">>)),
                   !.idx = @ + 1]

\* a plausible slip: the except clause gives up instead of continuing
AfterRaise_GiveUp(T, msg) ==
    [T EXCEPT !.last_error = Str(msg), !.idx = Len(T.unique_methods) + 1]

\* lines 247-250: except Exception: last_error = str(e); continue
AfterRaise(T, msg) == [T EXCEPT !.last_error = Str(msg), !.idx = @ + 1]

\* the task after one pass of the loop met outcome o
AfterAttempt(T, method, o) ==
    CASE o.kind = "cancel" -> [Logged(T, method, o) EXCEPT !.pc = "crashed"]
      [] o.kind \in {"raise", "construct_raise"} ->
            AfterRaise(Logged(T, method, o), o.msg)
      [] OTHER -> AfterReturn(Logged(T, method, o), o.info)

\* a plausible slip: the failure result does not carry the input URL
FallbackFailedInfo_NoSource(url, last_error) ==
    StoreInfo(None, None, None, None, Str(<<"fallback_failed">>),
              Str(<<"All scraping methods failed. Last error: ">>
                  \o StrOf(last_error)),
              NoMetadata)

\* lines 253-257: the StoreInfo returned when every method failed
FallbackFailedInfo(url, last_error) ==
    StoreInfo(None, None, None, Str(url), Str(<<"fallback_failed">>),
              Str(<<"All scraping methods failed. Last error: ">>
                  \o StrOf(last_error)),
              NoMetadata)

\* a plausible slip: the constructed instance is not stored
InstancesAfter_NoCache(method, o, kwargs) == instances

\* an instance is cached by get_scraper unless its constructor raised
InstancesAfter(method, o, kwargs) ==
    IF instances[method] = NoInstance /\ o.kind # "construct_raise"
    THEN [instances EXCEPT
            ![method] = [cls |-> scrapers[method], kwargs |-> kwargs]]
    ELSE instances

\* a plausible slip: the permit is given back after a normal return only
SemaphoreAfter_LeakOnException(T) ==
    IF op = "multi" /\ T.pc = "returned" THEN semaphore + 1 ELSE semaphore

\* a plausible slip: a task that ends gives back two permits
SemaphoreAfter_DoubleRelease(T) ==
    IF op = "multi" /\ T.pc # "running" THEN semaphore + 2 ELSE semaphore

\* leaving "async with semaphore" releases the permit
SemaphoreAfter(T) ==
    IF op = "multi" /\ T.pc # "running" THEN semaphore + 1 ELSE semaphore

CallPcAfter(T) ==
    IF op = "single" /\ T.pc # "running" THEN "done" ELSE call_pc

\* await manager.scrape_store_with_fallback(url, preferred_method)
StartSingle ==
    /\ op = "idle"
    /\ \E url \in ProductUrls, preferred \in {NoMethod} \cup ChainMethods :
          /\ arg_urls' = <<url>>
          /\ arg_preferred' = preferred
          /\ tasks' = <<NewTask(url, "running", preferred)>>
    /\ op' = "single"
    /\ call_pc' = "running"
    /\ UNCHANGED <<arg_kwargs, semaphore, batch_calls, batch_outcome, batch_map, ret_map>>
    /\ UNCHANGED <<varsRegistry, varsConfig, varsInfo, varsTiers>>
    /\ UNCHANGED varsDirect

\* one pass of "for method in unique_methods"
TaskAttempt(t) ==
    /\ op \in {"single", "multi"}
    /\ t \in 1..Len(tasks)
    /\ tasks[t].pc = "running"
    /\ tasks[t].idx <= Len(tasks[t].unique_methods)
    /\ LET T == tasks[t]
           method == T.unique_methods[T.idx]
       IN  IF method \notin list_available_methods
           THEN /\ tasks' = [tasks EXCEPT ![t].idx = @ + 1]
                /\ UNCHANGED <<instances, semaphore, call_pc>>
           ELSE \E o \in AttemptOutcomes(method, T.url) :
                   LET T2 == AfterAttempt(T, method, o)
                   IN  /\ tasks' = [tasks EXCEPT ![t] = T2]
                       /\ instances' = InstancesAfter(method, o, arg_kwargs)
                       /\ semaphore' = SemaphoreAfter(T2)
                       /\ call_pc' = CallPcAfter(T2)
    /\ UNCHANGED <<op, arg_urls, arg_preferred, arg_kwargs, batch_calls,
                   batch_outcome, batch_map, ret_map>>
    /\ UNCHANGED <<scrapers, varsConfig, varsInfo, varsTiers>>
    /\ UNCHANGED varsDirect

\* the loop is over without a valid result
TaskExhausted(t) ==
    /\ op \in {"single", "multi"}
    /\ t \in 1..Len(tasks)
    /\ tasks[t].pc = "running"
    /\ tasks[t].idx > Len(tasks[t].unique_methods)
    /\ LET T2 == [tasks[t] EXCEPT
                    !.pc = "returned",
                    !.result = FallbackFailedInfo(tasks[t].url,
                                                  tasks[t].last_error)]
       IN  /\ tasks' = [tasks EXCEPT ![t] = T2]
           /\ semaphore' = SemaphoreAfter(T2)
           /\ call_pc' = CallPcAfter(T2)
    /\ UNCHANGED <<op, arg_urls, arg_preferred, arg_kwargs, batch_calls,
                   batch_outcome, batch_map, ret_map>>
    /\ UNCHANGED <<varsRegistry, varsConfig, varsInfo, varsTiers>>
    /\ UNCHANGED varsDirect

-----------------------------------------------------------------------------
(* The backends' scrape_multiple_stores, as the manager sees it *)

\* batch_size = kwargs.get("batch_size", 3) in the traditional backend
TraditionalDefaultBatchSize == 3

\* batch_size = kwargs.get("batch_size", 5) in the MCP backend
MCPDefaultBatchSize == 5

\* the batch_size values callers pass through **kwargs
BatchSizes == {-1, 0}

BatchKwargs == {NoKwargs} \cup {Kwargs(TRUE, b) : b \in BatchSizes}

\* how the task of one URL of a batch can end: a valid extraction, the
\* all-tiers-failed result, or a navigation failure
BatchKinds == {"found", "all_failed", "failed"}

\* a plausible slip: a failed URL is stored without its error
BatchEntry_DropError(cls, url, kind) ==
    IF kind = "found" THEN FoundInfo(ClassPrefix(cls), url)
    ELSE StoreInfo(None, None, None, Str(url), None, None, NoMetadata)

\* the entry stored for a URL.  A failure reaches the traditional backend's
\* batch as an exception of _scrape_single_with_page (results[url] is built
\* from str(result)); the MCP backend's scrape_single_store has already
\* turned it into its error StoreInfo.
BatchEntry(cls, url, kind) ==
    CASE kind = "found" -> FoundInfo(ClassPrefix(cls), url)
      [] kind = "all_failed" -> AllFailedInfo(ClassPrefix(cls), url)
      [] OTHER ->
            IF cls = TraditionalClass
            THEN StoreInfo(None, None, None, Str(url),
                           Str(<<"traditional_playwright", "_batch_error">>),
                           Str(<<"Timeout 30000ms exceeded">>), NoMetadata)
            ELSE BackendErrorInfo("mcp_playwright", url,
                                  <<"MCP Playwright functions not available">>)

Min(a, b) == IF a <= b THEN a ELSE b

RECURSIVE BatchStore(_, _, _, _, _, _)
\* "for url, result in zip(batch, batch_results): results[url] = ..." for the
\* batch product_urls[lo-1 : hi]
BatchStore(cls, urls, kinds, lo, hi, results) ==
    IF lo > hi THEN results
    ELSE BatchStore(cls, urls, kinds, lo + 1, hi,
                    MapPut(results, urls[lo], BatchEntry(cls, urls[lo], kinds[lo])))

RECURSIVE BatchLoop(_, _, _, _, _, _)
\* "for i in range(0, len(product_urls), batch_size)" for a batch_size other
\* than 0: a negative step makes range(0, n, step) empty
BatchLoop(cls, urls, kinds, batch_size, i, results) ==
    IF batch_size < 0 \/ i >= Len(urls) THEN results
    ELSE BatchLoop(cls, urls, kinds, batch_size, i + batch_size,
                   BatchStore(cls, urls, kinds, i + 1,
                              Min(i + batch_size, Len(urls)), results))

BatchRaise(msg) == [kind |-> "raise", map |-> EmptyMap, msg |-> msg]

\* What awaiting scrape_multiple_stores(urls, **kwargs) on an instance of cls
\* can do, for a non-empty list.  The traditional backend initialises its
\* browser outside any except clause, so a failed launch raises; range()
\* raises ValueError for a step of 0; otherwise the mapping built by the loop
\* is returned.
BatchOutcomes(cls, urls, kwargs) ==
    LET batch_size ==
            KwargsBatchSize(kwargs, IF cls = TraditionalClass
                                    THEN TraditionalDefaultBatchSize
                                    ELSE MCPDefaultBatchSize)
    IN  (IF cls = TraditionalClass
         THEN {BatchRaise(<<"BrowserType.launch: Executable doesn't exist">>)}
         ELSE { })
        \cup
        (IF batch_size = 0
         THEN {BatchRaise(<<"range() arg 3 must not be zero">>)}
         ELSE {[kind |-> "return",
                map |-> BatchLoop(cls, urls, kinds, batch_size, 0, EmptyMap),
                msg |-> << >>] : kinds \in [1..Len(urls) -> BatchKinds]})

-----------------------------------------------------------------------------
(* StoreScraperManager.scrape_multiple_stores_with_fallback *)

\* method_to_use = preferred_method or self.default_method
MethodToUse(preferred) ==
    IF preferred # NoMethod THEN preferred ELSE default_method

\* what lines 274-282 can meet for a registered method_to_use: the
\* constructor raising in get_scraper, a backend without batch support, or an
\* outcome of its scrape_multiple_stores
BatchPathOutcomes(method, urls, kwargs) ==
    (IF instances[method] = NoInstance
     THEN {[kind |-> "construct_raise", map |-> EmptyMap, msg |-> m] :
             m \in ConstructRaises(scrapers[method])}
     ELSE { })
    \cup
    (IF SupportsBatch(scrapers[method])
     THEN BatchOutcomes(scrapers[method], urls, kwargs)
     ELSE {[kind |-> "no_batch", map |-> EmptyMap, msg |-> << >>]})

\* a plausible slip: a returned mapping with a non-valid entry is taken for a
\* failure of the batch call
ManagerAfterBatch_RetryInvalid(o) ==
    IF o.kind = "return" /\ \A u \in DOMAIN o.map : is_valid(o.map[u])
    THEN "done" ELSE "fanout"

\* a plausible slip: the mapping of the batch call is not returned
ManagerAfterBatch_NoReturn(o) == "fanout"

\* a plausible slip: a failed batch call ends the whole call
ManagerAfterBatch_NoFallback(o) ==
    IF o.kind \in {"return", "raise"} THEN "done" ELSE "fanout"

\* lines 276-282: "return await scraper.scrape_multiple_stores(...)" ends the
\* call; an exception is logged and control falls through to the per-URL
\* path, as it does for a backend without batch support
ManagerAfterBatch(o) == IF o.kind = "return" THEN "done" ELSE "fanout"

RECURSIVE CollectFrom_StopAtCrash(_, _, _)
\* a plausible slip: the first task that ended with an exception ends the
\* collection
CollectFrom_StopAtCrash(ts, i, results) ==
    IF i > Len(ts) \/ ts[i].pc # "returned" THEN results
    ELSE CollectFrom_StopAtCrash(ts, i + 1, MapPut(results, ts[i].url, ts[i].result))

RECURSIVE CollectFrom(_, _, _)
\* lines 303-309: a task that ended with an exception is skipped, the others
\* are stored under their URL
CollectFrom(ts, i, results) ==
    IF i > Len(ts) THEN results
    ELSE CollectFrom(ts, i + 1,
                     IF ts[i].pc = "returned"
                     THEN MapPut(results, ts[i].url, ts[i].result)
                     ELSE results)

CollectResults(ts) == CollectFrom(ts, 1, EmptyMap)

\* lines 288-300: one scrape_single_with_semaphore task per URL
FanoutTasks(urls, preferred) ==
    [i \in 1..Len(urls) |-> NewTask(urls[i], "waiting", preferred)]

\* scrape_multiple_stores_with_fallback([]): "if not product_urls: return {}"
MultiEmpty ==
    /\ op = "idle"
    /\ \E preferred \in MultiPreferred, kwargs \in BatchKwargs :
          /\ arg_preferred' = preferred
          /\ arg_kwargs' = kwargs
    /\ op' = "multi"
    /\ arg_urls' = << >>
    /\ call_pc' = "done"
    /\ ret_map' = EmptyMap
    /\ UNCHANGED <<tasks, semaphore, batch_calls, batch_outcome, batch_map>>
    /\ UNCHANGED <<varsRegistry, varsConfig, varsInfo, varsTiers>>
    /\ UNCHANGED varsDirect

\* lines 272-273 and 284-300 for a call whose method_to_use is None or not
\* registered: one task per URL, behind a fresh semaphore
IndividualCall(urls, preferred, kwargs) ==
    /\ op = "idle"
    /\ MethodToUse(preferred) \notin list_available_methods
    /\ arg_urls' = urls
    /\ arg_preferred' = preferred
    /\ arg_kwargs' = kwargs
    /\ tasks' = FanoutTasks(urls, preferred)
    /\ op' = "multi"
    /\ call_pc' = "fanout"
    /\ semaphore' = SemaphoreLimit
    /\ UNCHANGED <<batch_calls, batch_outcome, batch_map, ret_map>>
    /\ UNCHANGED <<varsRegistry, varsConfig, varsInfo, varsTiers>>
    /\ UNCHANGED varsDirect

\* a call whose method_to_use is None or not registered: the per-URL path
MultiIndividual ==
    \E urls \in UrlLists \ {<< >>}, preferred \in MultiPreferred,
       kwargs \in BatchKwargs :
        IndividualCall(urls, preferred, kwargs)

\* the longest URL list of the calls that contend for the semaphore
MaxFanoutUrls == 4

\* a list of n URLs, the two product URLs in turn
ManyUrls(n) ==
    [i \in 1..n |-> IF i % 2 = 1 THEN FirstUrl ELSE <<"https://ali/item/2.html">>]

\* the per-URL path for lists longer than the semaphore has permits
MultiIndividualMany ==
    \E n \in 1..MaxFanoutUrls : IndividualCall(ManyUrls(n), NoMethod, NoKwargs)

\* a call whose method_to_use is registered: get_scraper, then the batch
\* method if the backend supports it, else (or if that raised) the per-URL path
MultiBatch ==
    /\ op = "idle"
    /\ \E urls \in UrlLists \ {<< >>}, preferred \in MultiPreferred,
          kwargs \in BatchKwargs :
          LET method == MethodToUse(preferred) IN
          /\ method \in list_available_methods
          /\ arg_urls' = urls
          /\ arg_preferred' = preferred
          /\ arg_kwargs' = kwargs
          /\ \E o \in BatchPathOutcomes(method, urls, kwargs) :
                /\ instances' = InstancesAfter(method, o, kwargs)
                /\ batch_calls' =
                      IF o.kind \in {"return", "raise"}
                      THEN Append(batch_calls, [method |-> method, urls |-> urls])
                      ELSE batch_calls
                /\ batch_outcome' =
                      CASE o.kind = "return" -> "returned"
                        [] o.kind = "raise" -> "raised"
                        [] OTHER -> "none"
                /\ batch_map' = o.map
                /\ call_pc' = ManagerAfterBatch(o)
                /\ IF ManagerAfterBatch(o) = "done"
                   THEN /\ ret_map' = o.map
                        /\ UNCHANGED <<tasks, semaphore>>
                   ELSE /\ tasks' = FanoutTasks(urls, preferred)
                        /\ semaphore' = SemaphoreLimit
                        /\ UNCHANGED ret_map
    /\ op' = "multi"
    /\ UNCHANGED <<scrapers, varsConfig, varsInfo, varsTiers>>
    /\ UNCHANGED varsDirect

\* "async with semaphore": a task takes a permit
TaskAcquire(t) ==
    /\ op = "multi"
    /\ call_pc = "fanout"
    /\ t \in 1..Len(tasks)
    /\ tasks[t].pc = "waiting"
    /\ semaphore > 0
    /\ tasks' = [tasks EXCEPT ![t].pc = "running"]
    /\ semaphore' = semaphore - 1
    /\ UNCHANGED <<op, call_pc, arg_urls, arg_preferred, arg_kwargs, batch_calls,
                   batch_outcome, batch_map, ret_map>>
    /\ UNCHANGED <<varsRegistry, varsConfig, varsInfo, varsTiers>>
    /\ UNCHANGED varsDirect

\* asyncio.gather(..., return_exceptions=True) is over: the results are collected
MultiCollect ==
    /\ op = "multi"
    /\ call_pc = "fanout"
    /\ \A t \in 1..Len(tasks) : tasks[t].pc \in {"returned", "crashed"}
    /\ ret_map' = CollectResults(tasks)
    /\ call_pc' = "done"
    /\ UNCHANGED <<op, arg_urls, arg_preferred, arg_kwargs, tasks, semaphore,
                   batch_calls, batch_outcome, batch_map>>
    /\ UNCHANGED <<varsRegistry, varsConfig, varsInfo, varsTiers>>
    /\ UNCHANGED varsDirect

-----------------------------------------------------------------------------
(* StoreScraperRegistry, called directly: register, get_scraper, clear_instances *)

\* the longest sequence of calls made on the registry
MaxRegCalls == 4

\* the method identifiers and the classes the direct calls draw from
RegMethods == {"mcp_playwright", "requests_based"}

RegClasses == {MCPClass, TraditionalClass, OtherClass}

\* the keyword arguments of the direct get_scraper calls
RegKwargs == {NoKwargs, Kwargs(TRUE, 1)}

RegInit ==
    /\ reg_calls = << >>

\* a plausible slip: an unregistered method is constructed all the same
GetScraperOutcomes_NoLookupError(method) ==
    IF instances[method] # NoInstance
    THEN {[kind |-> "return", constructed |-> FALSE, msg |-> << >>]}
    ELSE {[kind |-> "return", constructed |-> TRUE, msg |-> << >>]}

\* get_scraper (lines 160-168): ValueError for a method that is not
\* registered; the cached instance if there is one; else the class is called,
\* which returns a new instance or raises
GetScraperOutcomes(method) ==
    IF scrapers[method] = NoClass
    THEN {[kind |-> "lookup_raise", constructed |-> FALSE,
           msg |-> <<"Store scraper not registered: ", method>>]}
    ELSE IF instances[method] # NoInstance
    THEN {[kind |-> "return", constructed |-> FALSE, msg |-> << >>]}
    ELSE {[kind |-> "return", constructed |-> TRUE, msg |-> << >>]}
         \cup {[kind |-> "construct_raise", constructed |-> TRUE, msg |-> m] :
                 m \in ConstructRaises(scrapers[method])}

\* An instance is named by the position, among the calls made on the registry,
\* of the get_scraper call that constructed it; 0 names no instance.
LastConstruction(calls, m) ==
    LET made == {k \in 1..Len(calls) :
                    /\ calls[k].op = "get_scraper"
                    /\ calls[k].method = m
                    /\ calls[k].constructed
                    /\ calls[k].kind = "return"}
    IN  IF made = { } THEN 0
        ELSE CHOOSE k \in made : \A j \in made : j <= k

\* the instance a get_scraper call hands back
ReturnedInstance(method, o) ==
    IF o.kind # "return" THEN 0
    ELSE IF o.constructed THEN Len(reg_calls) + 1
    ELSE LastConstruction(reg_calls, method)

\* a plausible slip: clear_instances leaves the cache as it is
clear_instances_Keep == instances

\* clear_instances: self._instances.clear()
clear_instances == [m \in Methods |-> NoInstance]

\* one entry of the record of calls: the call, how it ended, and the
\* registration table and instance cache it left behind
RegCall(name, method, cls, kwargs, o, inst) ==
    [op |-> name, method |-> method, cls |-> cls, kwargs |-> kwargs,
     kind |-> o.kind, constructed |-> o.constructed, instance |-> inst,
     table |-> scrapers', cache |-> instances']

Returned == [kind |-> "return", constructed |-> FALSE, msg |-> << >>]

\* registry.register(method, scraper_class)
DirectRegister ==
    /\ Len(reg_calls) < MaxRegCalls
    /\ \E m \in RegMethods, cls \in RegClasses :
          /\ register(m, cls)
          /\ reg_calls' = Append(reg_calls,
                                 RegCall("register", m, cls, NoKwargs, Returned, 0))
    /\ UNCHANGED <<varsConfig, varsCall, varsInfo, varsTiers, varsLoop,
                   varsSingle>>
    /\ UNCHANGED varsConc

\* registry.get_scraper(method, **kwargs)
DirectGetScraper ==
    /\ Len(reg_calls) < MaxRegCalls
    /\ \E m \in RegMethods, kwargs \in RegKwargs :
          \E o \in GetScraperOutcomes(m) :
             /\ instances' = IF o.constructed
                             THEN InstancesAfter(m, o, kwargs)
                             ELSE instances
             /\ UNCHANGED scrapers
             /\ reg_calls' = Append(reg_calls,
                                    RegCall("get_scraper", m, scrapers[m], kwargs,
                                            o, ReturnedInstance(m, o)))
    /\ UNCHANGED <<varsConfig, varsCall, varsInfo, varsTiers, varsLoop,
                   varsSingle>>
    /\ UNCHANGED varsConc

\* registry.clear_instances()
DirectClearInstances ==
    /\ Len(reg_calls) < MaxRegCalls
    /\ instances' = clear_instances
    /\ UNCHANGED scrapers
    /\ reg_calls' = Append(reg_calls,
                           RegCall("clear_instances", NoMethod, NoClass, NoKwargs,
                                   Returned, 0))
    /\ UNCHANGED <<varsConfig, varsCall, varsInfo, varsTiers, varsLoop,
                   varsSingle>>
    /\ UNCHANGED varsConc

-----------------------------------------------------------------------------
(* A backend's scrape_multiple_stores, one pass of its loop at a time *)

\* the longest URL list given to scrape_multiple_stores
MaxBatchUrls == 7

\* the batch_size values passed through **kwargs
LoopBatchSizes == {-1, 0, 1, 2, 3}

LoopKwargs == {NoKwargs} \cup {Kwargs(TRUE, b) : b \in LoopBatchSizes}

\* n distinct product URLs
LoopUrls(n) == [p \in 1..n |-> <<"https://ali/item/", ToString(p), ".html">>]

LoopInit ==
    /\ bl_cls = NoClass
    /\ bl_urls = << >>
    /\ bl_kwargs = NoKwargs
    /\ bl_pc = "idle"
    /\ bl_i = 0
    /\ bl_events = << >>
    /\ bl_kinds = << >>
    /\ bl_results = EmptyMap

\* batch_size = kwargs.get("batch_size", 3) / kwargs.get("batch_size", 5)
LoopBatchSize ==
    KwargsBatchSize(bl_kwargs, IF bl_cls = TraditionalClass
                               THEN TraditionalDefaultBatchSize
                               ELSE MCPDefaultBatchSize)

\* how scrape_multiple_stores gets to its loop: {} at once for an empty list;
\* in the traditional backend _initialize_browser may raise ("launch"), as
\* may the check of the context; range() raises for a step of 0
LoopEntries(cls, n, batch_size) ==
    IF n = 0 THEN {"done"}
    ELSE (IF cls = TraditionalClass THEN {"raised"} ELSE { })
         \cup (IF batch_size = 0 THEN {"raised"} ELSE {"loop"})

\* a plausible slip: the delay is slept after every batch
DelayAfterBatch_Always(i, batch_size, n) == TRUE

\* "if i + batch_size < len(product_urls): await asyncio.sleep(...)"
DelayAfterBatch(i, batch_size, n) == i + batch_size < n

\* the record of one batch, product_urls[lo-1 : hi], and of one delay
BatchEvent(lo, hi) == [ev |-> "batch", lo |-> lo, hi |-> hi]

DelayEvent == [ev |-> "delay", lo |-> 0, hi |-> 0]

\* await backend.scrape_multiple_stores(product_urls, **kwargs): up to the loop
BatchCallStart ==
    /\ bl_pc = "idle"
    /\ \E cls \in {TraditionalClass, MCPClass}, n \in 0..MaxBatchUrls,
          kwargs \in LoopKwargs :
          /\ bl_cls' = cls
          /\ bl_urls' = LoopUrls(n)
          /\ bl_kwargs' = kwargs
          /\ \E pc \in LoopEntries(cls, n,
                    KwargsBatchSize(kwargs, IF cls = TraditionalClass
                                            THEN TraditionalDefaultBatchSize
                                            ELSE MCPDefaultBatchSize)) :
                bl_pc' = pc
    /\ UNCHANGED <<bl_i, bl_events, bl_kinds, bl_results>>
    /\ UNCHANGED <<reg_calls, varsManager, varsInfo, varsTiers, varsSingle>>
    /\ UNCHANGED varsConc

\* one pass of "for i in range(0, len(product_urls), batch_size)": the batch
\* is gathered, its results are stored, and the delay is slept if more is left
BatchIteration ==
    /\ bl_pc = "loop"
    /\ LoopBatchSize > 0
    /\ bl_i < Len(bl_urls)
    /\ LET lo == bl_i + 1
           hi == Min(bl_i + LoopBatchSize, Len(bl_urls))
       IN  \E kinds \in [lo..hi -> BatchKinds] :
              /\ bl_results' = BatchStore(bl_cls, bl_urls, kinds, lo, hi, bl_results)
              /\ bl_kinds' = bl_kinds \o [p \in 1..(hi - lo + 1) |-> kinds[lo + p - 1]]
              /\ bl_events' =
                    bl_events \o <<BatchEvent(lo, hi)>>
                    \o (IF DelayAfterBatch(bl_i, LoopBatchSize, Len(bl_urls))
                        THEN <<DelayEvent>> ELSE << >>)
    /\ bl_i' = bl_i + LoopBatchSize
    /\ UNCHANGED <<bl_cls, bl_urls, bl_kwargs, bl_pc>>
    /\ UNCHANGED <<reg_calls, varsManager, varsInfo, varsTiers, varsSingle>>
    /\ UNCHANGED varsConc

\* the range is exhausted (or empty, for a negative step): "return results"
BatchCallReturn ==
    /\ bl_pc = "loop"
    /\ LoopBatchSize < 0 \/ bl_i >= Len(bl_urls)
    /\ bl_pc' = "done"
    /\ UNCHANGED <<bl_cls, bl_urls, bl_kwargs, bl_i, bl_events, bl_kinds, bl_results>>
    /\ UNCHANGED <<reg_calls, varsManager, varsInfo, varsTiers, varsSingle>>
    /\ UNCHANGED varsConc


-----------------------------------------------------------------------------
(* A backend's scrape_multiple_stores, one task of a batch at a time *)

\* the longest URL list of the calls whose batches are followed task by task
MaxGatherUrls == 4

GatherUrls == {<<"https://ali/item/", ToString(p), ".html">> : p \in 1..2}

\* the lists of one to MaxGatherUrls URLs, repeated URLs included
GatherUrlLists == UNION {[1..n -> GatherUrls] : n \in 1..MaxGatherUrls}

\* the batch_size values of these calls (the default of the traditional
\* backend among them)
GatherBatchSizes == {1, 2, TraditionalDefaultBatchSize}

NoOutcome == [exc |-> FALSE, info |-> NoInfo, msg |-> << >>]

\* what the coroutine of one URL ends with: the traditional backend's
\* _scrape_single_with_page returns the extraction result and lets a failed
\* navigation out as an exception; the MCP backend's scrape_single_store
\* returns a StoreInfo in every case
TaskOutcome(cls, url, kind) ==
    CASE kind = "found" ->
            [exc |-> FALSE, info |-> FoundInfo(ClassPrefix(cls), url), msg |-> << >>]
      [] kind = "all_failed" ->
            [exc |-> FALSE, info |-> AllFailedInfo(ClassPrefix(cls), url),
             msg |-> << >>]
      [] OTHER ->
            IF cls = TraditionalClass
            THEN [exc |-> TRUE, info |-> NoInfo,
                  msg |-> <<"Timeout 30000ms exceeded">>]
            ELSE [exc |-> FALSE,
                  info |-> BackendErrorInfo("mcp_playwright", url,
                              <<"MCP Playwright functions not available">>),
                  msg |-> << >>]

\* the body of "for url, result in zip(batch, batch_results)"
GatherEntry(cls, url, result) ==
    IF result.exc
    THEN StoreInfo(None, None, None, Str(url),
                   Str(<<ClassPrefix(cls), "_batch_error">>), Str(result.msg),
                   NoMetadata)
    ELSE result.info

\* a plausible slip: the results are taken in the order the tasks ended
GatherResults_CompletionOrder(ts, order) ==
    [k \in 1..Len(ts) |-> ts[order[k]].res]

\* batch_results = await asyncio.gather(*batch_tasks, return_exceptions=True):
\* the results in the order of the awaitables, whatever order they ended in
GatherResults(ts, order) == [k \in 1..Len(ts) |-> ts[k].res]

RECURSIVE ZipStore(_, _, _, _, _)
\* "for url, result in zip(batch, batch_results): results[url] = ..."
ZipStore(cls, ts, rs, k, results) ==
    IF k > Len(ts) THEN results
    ELSE ZipStore(cls, ts, rs, k + 1,
                  MapPut(results, ts[k].url, GatherEntry(cls, ts[k].url, rs[k])))

\* a plausible slip: the tasks of every URL that is left are created at once
GatherBatch_AllLeft(urls, i, batch_size) ==
    [k \in 1..(Len(urls) - i) |->
        [url |-> urls[i + k], pos |-> i + k, pc |-> "created", res |-> NoOutcome]]

\* batch_tasks for batch = product_urls[i : i + batch_size]
GatherBatch(urls, i, batch_size) ==
    [k \in 1..(Min(i + batch_size, Len(urls)) - i) |->
        [url |-> urls[i + k], pos |-> i + k, pc |-> "created", res |-> NoOutcome]]

GatherInit ==
    /\ gb_cls = NoClass
    /\ gb_urls = << >>
    /\ gb_bsize = 0
    /\ gb_pc = "idle"
    /\ gb_i = 0
    /\ gb_tasks = << >>
    /\ gb_order = << >>
    /\ gb_st = << >>
    /\ gb_computed = << >>
    /\ gb_slept = 0
    /\ gb_results = EmptyMap

\* await backend.scrape_multiple_stores(product_urls, batch_size=b), b >= 1,
\* up to the gather of the first batch
GatherCall ==
    /\ gb_pc = "idle"
    /\ \E cls \in {TraditionalClass, MCPClass}, urls \in GatherUrlLists,
          b \in GatherBatchSizes :
          /\ gb_cls' = cls
          /\ gb_urls' = urls
          /\ gb_bsize' = b
          /\ gb_tasks' = GatherBatch(urls, 0, b)
          /\ gb_st' = [p \in 1..Len(urls) |-> "pending"]
          /\ gb_computed' = [p \in 1..Len(urls) |-> NoOutcome]
    /\ gb_pc' = "gather"
    /\ UNCHANGED <<gb_i, gb_order, gb_slept, gb_results>>
    /\ UNCHANGED <<si, si_pc, si_valid, varsDict, varsHref, varsRetry, varsWrapper>>
    /\ UNCHANGED varsTiers
    /\ UNCHANGED varsManager
    /\ UNCHANGED varsDirect

\* the task of one URL opens its page (traditional) or issues its
\* navigation (MCP)
GatherTaskStart(k) ==
    /\ gb_pc = "gather"
    /\ k \in 1..Len(gb_tasks)
    /\ gb_tasks[k].pc = "created"
    /\ gb_tasks' = [gb_tasks EXCEPT ![k].pc = "running"]
    /\ gb_st' = [gb_st EXCEPT ![gb_tasks[k].pos] = "running"]
    /\ UNCHANGED <<gb_cls, gb_urls, gb_bsize, gb_pc, gb_i, gb_order, gb_computed,
                   gb_slept, gb_results>>
    /\ UNCHANGED <<si, si_pc, si_valid, varsDict, varsHref, varsRetry, varsWrapper>>
    /\ UNCHANGED varsTiers
    /\ UNCHANGED varsManager
    /\ UNCHANGED varsDirect

\* the task of one URL ends
GatherTaskEnd(k) ==
    /\ gb_pc = "gather"
    /\ k \in 1..Len(gb_tasks)
    /\ gb_tasks[k].pc = "running"
    /\ \E kind \in BatchKinds :
          LET res == TaskOutcome(gb_cls, gb_tasks[k].url, kind)
          IN  /\ gb_tasks' = [gb_tasks EXCEPT ![k].pc = "done", ![k].res = res]
              /\ gb_computed' = [gb_computed EXCEPT ![gb_tasks[k].pos] = res]
    /\ gb_order' = Append(gb_order, k)
    /\ gb_st' = [gb_st EXCEPT ![gb_tasks[k].pos] = "done"]
    /\ UNCHANGED <<gb_cls, gb_urls, gb_bsize, gb_pc, gb_i, gb_slept, gb_results>>
    /\ UNCHANGED <<si, si_pc, si_valid, varsDict, varsHref, varsRetry, varsWrapper>>
    /\ UNCHANGED varsTiers
    /\ UNCHANGED varsManager
    /\ UNCHANGED varsDirect

\* the gather is over: the results are stored, then the delay is slept if
\* more URLs are left, else the loop ends and results is returned
GatherCollect ==
    /\ gb_pc = "gather"
    /\ \A k \in 1..Len(gb_tasks) : gb_tasks[k].pc = "done"
    /\ gb_results' = ZipStore(gb_cls, gb_tasks, GatherResults(gb_tasks, gb_order),
                              1, gb_results)
    /\ gb_pc' = IF DelayAfterBatch(gb_i, gb_bsize, Len(gb_urls))
                THEN "sleep" ELSE "done"
    /\ gb_tasks' = << >>
    /\ UNCHANGED <<gb_cls, gb_urls, gb_bsize, gb_i, gb_order, gb_st, gb_computed,
                   gb_slept>>
    /\ UNCHANGED <<si, si_pc, si_valid, varsDict, varsHref, varsRetry, varsWrapper>>
    /\ UNCHANGED varsTiers
    /\ UNCHANGED varsManager
    /\ UNCHANGED varsDirect

\* asyncio.sleep(delay_between_batches) is over: the next pass of the loop
\* creates the tasks of the next batch
GatherWake ==
    /\ gb_pc = "sleep"
    /\ gb_slept' = gb_slept + 1
    /\ gb_i' = gb_i + gb_bsize
    /\ gb_tasks' = GatherBatch(gb_urls, gb_i + gb_bsize, gb_bsize)
    /\ gb_order' = << >>
    /\ gb_pc' = "gather"
    /\ UNCHANGED <<gb_cls, gb_urls, gb_bsize, gb_st, gb_computed, gb_results>>
    /\ UNCHANGED <<si, si_pc, si_valid, varsDict, varsHref, varsRetry, varsWrapper>>
    /\ UNCHANGED varsTiers
    /\ UNCHANGED varsManager
    /\ UNCHANGED varsDirect

-----------------------------------------------------------------------------
(* standalone_store_retry: retry_store_information and                     *)
(* retry_single_product_store                                              *)

\* the longest list of products
MaxProducts == 2

\* the largest max_retries
MaxRetries == 2

\* batch_size: int = 5
RetryDefaultBatchSize == 5

RetryBatchSizes == {1, RetryDefaultBatchSize}

\* A product, by what the code reads of it: whether "Product URL" is there,
\* whether Store Name, Store ID and Store URL are all filled in, and whether
\* "Product Name" is a string (absent counts: the default is one) or None
Product(p, has_url, complete, name_is_str) ==
    [id |-> p, has_url |-> has_url, complete |-> complete,
     name_is_str |-> name_is_str]

ProductLists ==
    UNION {{ps \in [1..n -> [id : 1..MaxProducts, has_url : BOOLEAN,
                             complete : BOOLEAN, name_is_str : BOOLEAN]] :
               \A p \in 1..n : ps[p].id = p} : n \in 0..MaxProducts}

\* store_scraper_registry.list_available_methods(): importing the module
\* registers both backends; a caller's registry may hold fewer
MethodLists ==
    {<< >>, <<"mcp_playwright">>, <<"mcp_playwright", "traditional_playwright">>}

\* how one awaited scrape_store_with_fallback call ends
RetryCallOutcomes == {"valid", "not_valid", "raise"}

\* "for method in methods: for attempt in range(max_retries)": the pass
\* that follows the pass (m, attempt)
RetryAdvance(m, attempt, max_retries) ==
    IF attempt + 1 < max_retries THEN <<m, attempt + 1>> ELSE <<m + 1, 0>>

\* a retry_single_product_store(product, ...) task
RetryTask(pos) == [pos |-> pos, pc |-> "created", m |-> 1, attempt |-> 0,
                   retry |-> "none"]

\* the tasks created for batch = products[i : i + batch_size]: one per
\* product with a "Product URL"
RetryBatch(products, i, batch_size) ==
    LET hi == Min(i + batch_size, Len(products))
        idx == SelectSeq([k \in 1..(hi - i) |-> i + k],
                         LAMBDA pos : products[pos].has_url)
    IN  [k \in 1..Len(idx) |-> RetryTask(idx[k])]

\* the products of the batch without a URL: updated_products.append(product)
RetrySkipped(products, i, batch_size) ==
    LET hi == Min(i + batch_size, Len(products))
        idx == SelectSeq([k \in 1..(hi - i) |-> i + k],
                         LAMBDA pos : ~products[pos].has_url)
    IN  [k \in 1..Len(idx) |-> [id |-> products[idx[k]].id, retry |-> "none"]]

\* "for result in batch_results": a task that ended with an exception is
\* counted as failed and not appended
RetryCollected(products, ts) ==
    LET ok == SelectSeq(ts, LAMBDA t : t.pc = "returned")
    IN  [k \in 1..Len(ok) |-> [id |-> products[ok[k].pos].id, retry |-> ok[k].retry]]

RetryInit ==
    /\ rs_products = << >>
    /\ rs_methods = << >>
    /\ rs_max = 0
    /\ rs_bsize = 0
    /\ rs_pc = "idle"
    /\ rs_i = 0
    /\ rs_tasks = << >>
    /\ rs_calls = << >>
    /\ rs_updated = << >>

\* await retry_store_information(products, batch_size=b, max_retries=r), up
\* to the gather of the first batch.  For an empty list the loop does not
\* run and the success rate total_success / len(products) divides by zero.
RetryCall ==
    /\ rs_pc = "idle"
    /\ \E products \in ProductLists, methods \in MethodLists,
          r \in 1..MaxRetries, b \in RetryBatchSizes :
          /\ rs_products' = products
          /\ rs_methods' = methods
          /\ rs_max' = r
          /\ rs_bsize' = b
          /\ rs_calls' = [p \in 1..Len(products) |-> 0]
          /\ rs_tasks' = RetryBatch(products, 0, b)
          /\ rs_updated' = RetrySkipped(products, 0, b)
          /\ rs_pc' = IF products = << >> THEN "raised" ELSE "gather"
    /\ UNCHANGED rs_i
    /\ UNCHANGED <<si, si_pc, si_valid, varsDict, varsHref, varsGather, varsWrapper>>
    /\ UNCHANGED varsTiers
    /\ UNCHANGED varsManager
    /\ UNCHANGED varsDirect

\* where a task stands once it is at the pass (m, attempt) of its loops:
\* about to call the manager, or past the loops with the copy marked failed
RetryAt(T, m, attempt) ==
    IF m > Len(rs_methods)
    THEN [T EXCEPT !.pc = "returned", !.retry = "failed", !.m = m, !.attempt = 0]
    ELSE [T EXCEPT !.pc = "calling", !.m = m, !.attempt = attempt]

\* retry_single_product_store up to its first awaited call: a complete
\* product is returned as it is; product.get("Product Name", ...)[:50]
\* raises TypeError for a name that is None
RetryEnter(k) ==
    /\ rs_pc = "gather"
    /\ k \in 1..Len(rs_tasks)
    /\ rs_tasks[k].pc = "created"
    /\ LET T == rs_tasks[k]
           product == rs_products[T.pos]
       IN  rs_tasks' =
              [rs_tasks EXCEPT ![k] =
                  IF product.complete THEN [T EXCEPT !.pc = "returned"]
                  ELSE IF ~product.name_is_str THEN [T EXCEPT !.pc = "raised"]
                  ELSE RetryAt(T, 1, 0)]
    /\ UNCHANGED <<rs_products, rs_methods, rs_max, rs_bsize, rs_pc, rs_i, rs_calls,
                   rs_updated>>
    /\ UNCHANGED <<si, si_pc, si_valid, varsDict, varsHref, varsGather, varsWrapper>>
    /\ UNCHANGED varsTiers
    /\ UNCHANGED varsManager
    /\ UNCHANGED varsDirect

\* one awaited scrape_store_with_fallback(store_url, preferred_method=method)
\* ends: a valid result is returned in the updated product; a non-valid one
\* or an exception leads to the next pass
RetryAttempt(k) ==
    /\ rs_pc = "gather"
    /\ k \in 1..Len(rs_tasks)
    /\ rs_tasks[k].pc = "calling"
    /\ \E o \in RetryCallOutcomes :
          LET T == rs_tasks[k]
              next == RetryAdvance(T.m, T.attempt, rs_max)
          IN  rs_tasks' =
                 [rs_tasks EXCEPT ![k] =
                     IF o = "valid"
                     THEN [T EXCEPT !.pc = "returned", !.retry = "success"]
                     ELSE RetryAt(T, next[1], next[2])]
    /\ rs_calls' = [rs_calls EXCEPT ![rs_tasks[k].pos] = @ + 1]
    /\ UNCHANGED <<rs_products, rs_methods, rs_max, rs_bsize, rs_pc, rs_i, rs_updated>>
    /\ UNCHANGED <<si, si_pc, si_valid, varsDict, varsHref, varsGather, varsWrapper>>
    /\ UNCHANGED varsTiers
    /\ UNCHANGED varsManager
    /\ UNCHANGED varsDirect

\* the gather of the batch is over (at once for a batch without tasks): the
\* returned products are appended, then the delay is slept if products are
\* left, else updated_products is returned
RetryCollect ==
    /\ rs_pc = "gather"
    /\ \A k \in 1..Len(rs_tasks) : rs_tasks[k].pc \in {"returned", "raised"}
    /\ rs_updated' = rs_updated \o RetryCollected(rs_products, rs_tasks)
    /\ rs_pc' = IF DelayAfterBatch(rs_i, rs_bsize, Len(rs_products))
                THEN "sleep" ELSE "done"
    /\ UNCHANGED <<rs_products, rs_methods, rs_max, rs_bsize, rs_i, rs_tasks, rs_calls>>
    /\ UNCHANGED <<si, si_pc, si_valid, varsDict, varsHref, varsGather, varsWrapper>>
    /\ UNCHANGED varsTiers
    /\ UNCHANGED varsManager
    /\ UNCHANGED varsDirect

\* asyncio.sleep(delay_seconds) is over: the next pass of the batch loop
RetryWake ==
    /\ rs_pc = "sleep"
    /\ rs_i' = rs_i + rs_bsize
    /\ rs_tasks' = RetryBatch(rs_products, rs_i + rs_bsize, rs_bsize)
    /\ rs_updated' = rs_updated \o RetrySkipped(rs_products, rs_i + rs_bsize, rs_bsize)
    /\ rs_pc' = "gather"
    /\ UNCHANGED <<rs_products, rs_methods, rs_max, rs_bsize, rs_calls>>
    /\ UNCHANGED <<si, si_pc, si_valid, varsDict, varsHref, varsGather, varsWrapper>>
    /\ UNCHANGED varsTiers
    /\ UNCHANGED varsManager
    /\ UNCHANGED varsDirect

-----------------------------------------------------------------------------

(* A backend's scrape_single_store, one awaited step at a time *)

\* the awaited steps, in order.  Traditional: _initialize_browser (with the
\* check of the context), new_page, goto, wait_for_timeout, the extraction,
\* and page.close() in the finally clause.  MCP:
\* _apply_bandwidth_optimization, _navigate_to_url, _wait_for_page_ready and
\* the extraction.
SingleSteps(cls) ==
    IF cls = TraditionalClass
    THEN <<"init", "new_page", "goto", "wait", "extract", "close">>
    ELSE <<"optimize", "navigate", "wait", "extract">>

\* the exceptions a step can raise; the extraction tiers catch their own
StepErrors(cls, step) ==
    CASE step = "init" -> {<<"BrowserType.launch: Executable doesn't exist">>,
                           <<"Browser context not initialized">>}
      [] step = "new_page" -> {<<"Target page, context or browser has been closed">>}
      [] step = "goto" -> {<<"Timeout 30000ms exceeded">>,
                           <<"net::ERR_CONNECTION_RESET">>}
      [] step = "navigate" -> {<<"MCP Playwright functions not available">>,
                               <<"Timeout 30000ms exceeded">>}
      [] step = "wait" -> {<<"Target page, context or browser has been closed">>}
      [] step = "optimize" -> {<<"evaluate failed">>}
      [] step = "close" -> {<<"Target page, context or browser has been closed">>}
      [] OTHER -> { }

\* _apply_bandwidth_optimization and _wait_for_page_ready of the MCP backend
\* catch every Exception themselves
Swallowed(cls, step) == cls = MCPClass /\ step \in {"optimize", "wait"}

\* the steps of the traditional backend inside "try: ... finally: page.close()"
InPageTry(cls, step) ==
    cls = TraditionalClass /\ step \in {"goto", "wait", "extract"}

\* what _extract_store_info_with_fallback hands back: the valid result of a
\* tier, or the all-failed result
ExtractionResults(cls, url) ==
    {r \in UNION {{TierResult(ClassPrefix(cls), tier, url, ev) :
                      ev \in TierEvals(tier)} :
                  tier \in {"xpath", "css", "alternative"}} : is_valid(r)}
    \cup {AllFailedInfo(ClassPrefix(cls), url)}

\* a plausible slip: page.close() runs outside the try block, so its
\* exception reaches the caller
SingleAfterFailure_CloseEscapes(cls, url, step, msg) ==
    IF step = "close"
    THEN [outcome |-> "raised", ret |-> NoInfo]
    ELSE [outcome |-> "returned",
          ret |-> BackendErrorInfo(ClassPrefix(cls), url, msg)]

\* "except Exception as e: return StoreInfo(source_url=product_url,
\* error=error_msg, extraction_method='<backend>_error')"
SingleAfterFailure(cls, url, step, msg) ==
    [outcome |-> "returned", ret |-> BackendErrorInfo(ClassPrefix(cls), url, msg)]

StepOk == [failed |-> FALSE, msg |-> << >>]

\* how a step can end
StepOutcomes(cls, step) ==
    {StepOk} \cup {[failed |-> TRUE, msg |-> m] : m \in StepErrors(cls, step)}

\* the step after position k, "return" after the last
StepAfter(cls, step) ==
    LET k == CHOOSE i \in 1..Len(SingleSteps(cls)) : SingleSteps(cls)[i] = step
    IN  IF k = Len(SingleSteps(cls)) THEN "return" ELSE SingleSteps(cls)[k + 1]

SingleInit ==
    /\ ss_cls = NoClass
    /\ ss_url = << >>
    /\ ss_pc = "idle"
    /\ ss_steps = << >>
    /\ ss_info = NoInfo
    /\ ss_pending = None
    /\ ss_outcome = "none"
    /\ ss_ret = NoInfo

\* await backend.scrape_single_store(product_url)
SingleStart ==
    /\ ss_pc = "idle"
    /\ \E cls \in {TraditionalClass, MCPClass}, url \in ProductUrls :
          /\ ss_cls' = cls
          /\ ss_url' = url
          /\ ss_pc' = SingleSteps(cls)[1]
    /\ UNCHANGED <<ss_steps, ss_info, ss_pending, ss_outcome, ss_ret>>
    /\ UNCHANGED <<reg_calls, varsLoop, varsManager, varsInfo, varsTiers>>
    /\ UNCHANGED varsConc

\* the call ends: through the except clause if an exception is in flight,
\* else with store_info
SingleEnd(step, pending, info) ==
    LET r == IF pending.some
             THEN SingleAfterFailure(ss_cls, ss_url, step, pending.val)
             ELSE [outcome |-> "returned", ret |-> info]
    IN  /\ ss_pc' = "done"
        /\ ss_outcome' = r.outcome
        /\ ss_ret' = r.ret
        /\ ss_pending' = None

\* one awaited step and the control flow that follows it
SingleStep ==
    /\ ss_pc \notin {"idle", "done"}
    /\ \E o \in StepOutcomes(ss_cls, ss_pc) :
         \E info \in (IF ss_pc = "extract" THEN ExtractionResults(ss_cls, ss_url)
                      ELSE {ss_info}) :
          /\ ss_steps' = Append(ss_steps, [step |-> ss_pc, failed |-> o.failed,
                                           msg |-> o.msg])
          /\ ss_info' = info
          /\ IF o.failed /\ ~Swallowed(ss_cls, ss_pc)
             THEN IF InPageTry(ss_cls, ss_pc)
                  THEN /\ ss_pc' = "close"
                       /\ ss_pending' = Str(o.msg)
                       /\ UNCHANGED <<ss_outcome, ss_ret>>
                  ELSE SingleEnd(ss_pc, Str(o.msg), info)
             ELSE IF StepAfter(ss_cls, ss_pc) = "return"
                  THEN SingleEnd(ss_pc, ss_pending, info)
                  ELSE /\ ss_pc' = IF ss_pending.some THEN "close"
                                   ELSE StepAfter(ss_cls, ss_pc)
                       /\ UNCHANGED <<ss_pending, ss_outcome, ss_ret>>
    /\ UNCHANGED <<ss_cls, ss_url>>
    /\ UNCHANGED <<reg_calls, varsLoop, varsManager, varsInfo, varsTiers>>
    /\ UNCHANGED varsConc

(* The traditional backend under concurrent calls on one instance.  A      *)
(* coroutine runs without interruption from one awaited Playwright call to *)
(* the next; a step below is the completion of the call a task awaits       *)
(* (it returns or it raises) and the code up to the next awaited call.      *)

\* the calls made on the instance in one behaviour
MaxSessionCalls == 2

NoRef == 0

SessionUrls == LoopUrls(2)

SessionKwargs == {NoKwargs, Kwargs(TRUE, 1)}

\* the awaited calls that are let to raise
SessionRaises == {"ctx_close", "launch", "new_page", "goto", "extract", "page_close"}

\* a coroutine: scrape_single_store ("single"), scrape_multiple_stores
\* ("multi") or one _scrape_single_with_page of a batch ("with_page")
NewSessionTask(kind, url, parent, bsize) ==
    [kind |-> kind, url |-> url, parent |-> parent, bsize |-> bsize, i |-> 0,
     pc |-> "entry", target |-> NoRef, old |-> NoRef, page |-> NoRef,
     pending |-> FALSE, result |-> "none", outcome |-> "none"]

SessionInit ==
    /\ tb_playwright = NoRef
    /\ tb_browser = NoRef
    /\ tb_context = NoRef
    /\ drivers = << >>
    /\ browsers = << >>
    /\ contexts = << >>
    /\ pages = << >>
    /\ tk = << >>
    /\ tb_calls = 0

\* "self._browser.is_connected()"
is_connected(b) == browsers[b] = "connected"

\* "if not self._browser:" of _initialize_browser (lines 96-97): start the
\* driver, else the initialisation is over
InitPc(b) == IF b = NoRef THEN "pw_start" ELSE "after_init"

\* _cleanup_browser from its k-th "if" on (lines 156-164), then line 96
CleanupFrom(k, c, b, p) ==
    IF k <= 1 /\ c # NoRef THEN "ctx_close"
    ELSE IF k <= 2 /\ b # NoRef THEN "br_close"
    ELSE IF k <= 3 /\ p # NoRef THEN "pw_stop"
    ELSE InitPc(b)

\* the object an awaited call is made on, read when the call is made
TargetOf(pc, c, b, p) ==
    CASE pc \in {"ctx_close", "route", "new_page"} -> c
      [] pc \in {"br_close", "new_context"} -> b
      [] pc \in {"pw_stop", "launch"} -> p
      [] OTHER -> NoRef

Awaiting(T, pc, c, b, p) == [T EXCEPT !.pc = pc, !.target = TargetOf(pc, c, b, p)]

\* an exception outside "try: ... finally: page.close()": scrape_single_store
\* catches it and returns the "<backend>_error" StoreInfo (lines 220-227),
\* scrape_multiple_stores and _scrape_single_with_page let it through
Failed(T) ==
    [T EXCEPT !.pc = "done",
              !.outcome = IF T.kind = "single" THEN "error" ELSE "raised"]

\* a plausible slip: no "finally", the exception leaves with the page open
AfterPageFailure_NoFinally(T) == Failed(T)

\* an exception of goto, wait_for_timeout or the extraction: the finally
\* clause runs page.close() with the exception in flight (lines 217-218, 319-320)
AfterPageFailure(T) == [T EXCEPT !.pending = TRUE, !.pc = "page_close", !.target = NoRef]

\* the coroutines of the batch that starts at index i (lines 255, 264-266)
SessionBatch(T, t) ==
    [k \in 1..(Min(T.i + T.bsize, Len(SessionUrls)) - T.i) |->
        NewSessionTask("with_page", SessionUrls[T.i + k], t, 0)]

\* the code after _initialize_browser: "if not self._context: raise", then
\* new_page (single, lines 184-187) or the first batch (multi, lines 247-270)
Settle(seq, t, c) ==
    IF seq[t].pc # "after_init" THEN seq
    ELSE IF c = NoRef THEN [seq EXCEPT ![t] = Failed(@)]
    ELSE IF seq[t].kind = "single"
         THEN [seq EXCEPT ![t] = Awaiting(@, "new_page", c, NoRef, NoRef)]
         ELSE [seq EXCEPT ![t].pc = "gather"] \o SessionBatch(seq[t], t)

TopLevel == {t \in 1..Len(tk) : tk[t].parent = NoRef}

InProgress == {t \in TopLevel : tk[t].pc # "done"}

\* the coroutines and pages still there when a call is made: a coroutine
\* that has ended is gone once nothing runs any more, a closed page is gone
\* with the coroutine that owned it
LiveTasks == IF InProgress = { } THEN << >> ELSE tk

LivePages ==
    IF InProgress = { } THEN SelectSeq(pages, LAMBDA p : ~p.closed) ELSE pages

\* a call on the instance: the coroutine is created.  A scrape_single_store
\* call may start while another one runs; a scrape_multiple_stores call,
\* which runs the coroutines of its batch concurrently, starts alone.
SessionCall ==
    /\ tb_calls < MaxSessionCalls
    /\ \/ /\ \A t \in InProgress : tk[t].kind = "single"
          /\ \A t, u \in InProgress : t = u
          /\ tk' = Append(LiveTasks, NewSessionTask("single", SessionUrls[1], NoRef, 0))
       \/ /\ InProgress = { }
          /\ \E kwargs \in SessionKwargs :
                tk' = Append(LiveTasks, NewSessionTask("multi", << >>, NoRef,
                                 KwargsBatchSize(kwargs, TraditionalDefaultBatchSize)))
    /\ pages' = LivePages
    /\ tb_calls' = tb_calls + 1
    /\ UNCHANGED <<tb_playwright, tb_browser, tb_context, drivers, browsers,
                   contexts>>
    /\ UNCHANGED <<varsMcp, varsLegacy, varsOld>>

\* the coroutine runs up to its first awaited call: lines 93-97 of
\* _initialize_browser, or the check of _scrape_single_with_page (307-310)
SessionEnter(t) ==
    /\ tk[t].pc = "entry"
    /\ IF tk[t].kind = "with_page"
       THEN tk' = IF tb_context = NoRef
                  THEN [tk EXCEPT ![t] = Failed(@)]
                  ELSE [tk EXCEPT ![t] = Awaiting(@, "new_page", tb_context,
                                                  NoRef, NoRef)]
       ELSE LET disco == tb_browser # NoRef /\ ~is_connected(tb_browser)
                pc1 == IF disco
                       THEN CleanupFrom(1, tb_context, tb_browser, tb_playwright)
                       ELSE InitPc(tb_browser)
                T1 == [Awaiting(tk[t], pc1, tb_context, tb_browser, tb_playwright)
                         EXCEPT !.old = IF disco THEN tb_browser ELSE NoRef]
            IN  tk' = Settle([tk EXCEPT ![t] = T1], t, tb_context)
    /\ UNCHANGED <<tb_playwright, tb_browser, tb_context, drivers, browsers,
                   contexts, pages>>
    /\ UNCHANGED tb_calls
    /\ UNCHANGED <<varsMcp, varsLegacy, varsOld>>

\* whether the awaited call returns
CallOutcomes(pc) == IF pc \in SessionRaises THEN {TRUE, FALSE} ELSE {TRUE}

\* _cleanup_browser: context.close(), browser.close(), playwright.stop(),
\* each followed by the clearing of its reference
CleanupStep(t) ==
    /\ tk[t].pc \in {"ctx_close", "br_close", "pw_stop"}
    /\ \E ok \in CallOutcomes(tk[t].pc) :
          IF ~ok
          THEN /\ tk' = [tk EXCEPT ![t] = Failed(@)]
               /\ UNCHANGED <<tb_playwright, tb_browser, tb_context, drivers,
                              browsers, contexts>>
          ELSE LET pc == tk[t].pc
                   c1 == IF pc = "ctx_close" THEN NoRef ELSE tb_context
                   b1 == IF pc = "br_close" THEN NoRef ELSE tb_browser
                   p1 == IF pc = "pw_stop" THEN NoRef ELSE tb_playwright
                   k == CASE pc = "ctx_close" -> 2 [] pc = "br_close" -> 3
                          [] OTHER -> 4
                   pc1 == CleanupFrom(k, c1, b1, p1)
               IN  /\ tb_context' = c1
                   /\ tb_browser' = b1
                   /\ tb_playwright' = p1
                   /\ contexts' = IF pc = "ctx_close"
                                  THEN [contexts EXCEPT ![tk[t].target].closed = TRUE]
                                  ELSE contexts
                   /\ browsers' = IF pc = "br_close"
                                  THEN [browsers EXCEPT ![tk[t].target] = "closed"]
                                  ELSE browsers
                   /\ drivers' = IF pc = "pw_stop"
                                 THEN [drivers EXCEPT ![tk[t].target] = "stopped"]
                                 ELSE drivers
                   /\ tk' = Settle([tk EXCEPT ![t] = Awaiting(@, pc1, c1, b1, p1)],
                                   t, c1)
    /\ UNCHANGED pages
    /\ UNCHANGED tb_calls
    /\ UNCHANGED <<varsMcp, varsLegacy, varsOld>>

\* lines 97-145: async_playwright().start(), chromium.launch(), new_context()
\* and route(), each result assigned when its call returns
LaunchStep(t) ==
    /\ tk[t].pc \in {"pw_start", "launch", "new_context", "route"}
    /\ \E ok \in CallOutcomes(tk[t].pc) :
          IF ~ok
          THEN /\ tk' = [tk EXCEPT ![t] = Failed(@)]
               /\ UNCHANGED <<tb_playwright, tb_browser, tb_context, drivers,
                              browsers, contexts>>
          ELSE LET pc == tk[t].pc
                   p1 == IF pc = "pw_start" THEN Len(drivers) + 1 ELSE tb_playwright
                   b1 == IF pc = "launch" THEN Len(browsers) + 1 ELSE tb_browser
                   c1 == IF pc = "new_context" THEN Len(contexts) + 1 ELSE tb_context
                   pc1 == CASE pc = "pw_start" -> "launch"
                            [] pc = "launch" -> "new_context"
                            [] pc = "new_context" -> "route"
                            [] OTHER -> "after_init"
               IN  /\ tb_playwright' = p1
                   /\ tb_browser' = b1
                   /\ tb_context' = c1
                   /\ drivers' = IF pc = "pw_start" THEN Append(drivers, "running")
                                 ELSE drivers
                   /\ browsers' = IF pc = "launch" THEN Append(browsers, "connected")
                                  ELSE browsers
                   /\ contexts' = IF pc = "new_context"
                                  THEN Append(contexts, [browser |-> tk[t].target,
                                                         closed |-> FALSE])
                                  ELSE contexts
                   /\ tk' = Settle([tk EXCEPT ![t] = Awaiting(@, pc1, c1, b1, p1)],
                                   t, c1)
    /\ UNCHANGED pages
    /\ UNCHANGED tb_calls
    /\ UNCHANGED <<varsMcp, varsLegacy, varsOld>>

\* what the extraction hands back
SessionResults == {"valid", "not_valid"}

\* the page of a task: new_page(), goto(), wait_for_timeout() with the
\* extraction, and page.close() in the finally clause.  A page counts as
\* closed once page.close() has been awaited for it.
PageStep(t) ==
    /\ tk[t].pc \in {"new_page", "goto", "extract", "page_close"}
    /\ \E ok \in CallOutcomes(tk[t].pc), r \in SessionResults :
          LET T == tk[t]
              pc == T.pc
          IN  CASE pc = "new_page" ->
                     IF ok
                     THEN /\ pages' = Append(pages, [ctx |-> T.target, owner |-> t,
                                                     url |-> << >>, closed |-> FALSE])
                          /\ tk' = [tk EXCEPT ![t].page = Len(pages) + 1,
                                              ![t].pc = "goto",
                                              ![t].target = NoRef]
                     ELSE /\ tk' = [tk EXCEPT ![t] = Failed(@)]
                          /\ UNCHANGED pages
                [] pc = "goto" ->
                     IF ok
                     THEN /\ pages' = [pages EXCEPT ![T.page].url = T.url]
                          /\ tk' = [tk EXCEPT ![t].pc = "extract"]
                     ELSE /\ tk' = [tk EXCEPT ![t] = AfterPageFailure(@)]
                          /\ UNCHANGED pages
                [] pc = "extract" ->
                     /\ UNCHANGED pages
                     /\ tk' = IF ok
                              THEN [tk EXCEPT ![t].result = r, ![t].pc = "page_close"]
                              ELSE [tk EXCEPT ![t] = AfterPageFailure(@)]
                [] OTHER ->
                     /\ pages' = [pages EXCEPT ![T.page].closed = TRUE]
                     /\ tk' = IF ok /\ ~T.pending
                              THEN [tk EXCEPT ![t].pc = "done",
                                              ![t].outcome = T.result]
                              ELSE [tk EXCEPT ![t] = Failed(@)]
    /\ UNCHANGED <<tb_playwright, tb_browser, tb_context, drivers, browsers,
                   contexts>>
    /\ UNCHANGED tb_calls
    /\ UNCHANGED <<varsMcp, varsLegacy, varsOld>>

ChildrenOf(t) == {c \in 1..Len(tk) : tk[c].parent = t}

\* scrape_multiple_stores after "await asyncio.gather(...)": the results are
\* stored, then the delay and the next batch, or the return (lines 268-301)
GatherStep(t) ==
    /\ tk[t].pc \in {"gather", "delay"}
    /\ \A c \in ChildrenOf(t) : tk[c].pc = "done"
    /\ IF tk[t].pc = "gather"
       THEN tk' = IF DelayAfterBatch(tk[t].i, tk[t].bsize, Len(SessionUrls))
                  THEN [tk EXCEPT ![t].pc = "delay"]
                  ELSE [tk EXCEPT ![t].pc = "done", ![t].outcome = "returned"]
       ELSE LET T1 == [tk[t] EXCEPT !.i = @ + tk[t].bsize, !.pc = "gather"]
            IN  tk' = [tk EXCEPT ![t] = T1] \o SessionBatch(T1, t)
    /\ UNCHANGED <<tb_playwright, tb_browser, tb_context, drivers, browsers,
                   contexts, pages>>
    /\ UNCHANGED tb_calls
    /\ UNCHANGED <<varsMcp, varsLegacy, varsOld>>

\* the browser the instance holds crashes or loses its connection, between
\* two operations; the first browser only, to keep the behaviours finite
Disconnect ==
    /\ tb_browser # NoRef
    /\ is_connected(tb_browser)
    /\ \A b \in 1..Len(browsers) : is_connected(b)
    /\ \A t \in 1..Len(tk) : tk[t].pc \in {"entry", "done"}
    /\ browsers' = [browsers EXCEPT ![tb_browser] = "disconnected"]
    /\ UNCHANGED <<tb_playwright, tb_browser, tb_context, drivers, contexts,
                   pages, tk>>
    /\ UNCHANGED tb_calls
    /\ UNCHANGED <<varsMcp, varsLegacy, varsOld>>

-----------------------------------------------------------------------------
(* The MCP backend under the concurrent tasks of one batch.  The MCP        *)
(* functions take no page: mcp_playwright_browser_navigate(url=...) moves   *)
(* the page of the MCP browser, mcp_playwright_browser_evaluate(function=...)*)
(* runs against the page as it is when the call is served.                  *)

\* the URLs of the batch
MaxMcpTasks == 3

NoPage == [url |-> << >>, by |-> 0]

McpInit ==
    /\ mcp_page = NoPage
    /\ mt = << >>

NewMcpTask(url) == [url |-> url, pc |-> "entry", seen |-> << >>, outcome |-> "none"]

\* "batch_tasks = [self.scrape_single_store(url, **kwargs) for url in batch]"
\* and "await asyncio.gather(*batch_tasks, return_exceptions=True)"
McpBatchStart ==
    /\ mt = << >>
    /\ \E n \in 1..MaxMcpTasks :
          mt' = [k \in 1..n |-> NewMcpTask(LoopUrls(n)[k])]
    /\ UNCHANGED mcp_page
    /\ UNCHANGED <<varsSession, varsLegacy, varsOld>>

\* the tier that follows a non-valid tier, "all_failed" after the third
McpNextTier(pc) ==
    CASE pc = "xpath" -> "css"
      [] pc = "css" -> "alternative"
      [] OTHER -> "all_failed"

\* mcp_playwright_browser_navigate(url=url) of task t
McpNavigate(page, t, url) == [url |-> url, by |-> t]

\* scrape_single_store of the MCP backend, from one awaited call to the next
\* (lines 110-152): the optimisation script, the navigation, the wait, and
\* the evaluate call of each tier
McpStep(t) ==
    /\ mt[t].pc \notin {"done"}
    /\ LET T == mt[t]
       IN  CASE T.pc = "entry" ->
                  /\ mt' = [mt EXCEPT ![t].pc = "optimize"]
                  /\ UNCHANGED mcp_page
             [] T.pc = "optimize" ->
                  /\ mt' = [mt EXCEPT ![t].pc = "navigate"]
                  /\ UNCHANGED mcp_page
             [] T.pc = "navigate" ->
                  \E ok \in BOOLEAN :
                     IF ok
                     THEN /\ mcp_page' = McpNavigate(mcp_page, t, T.url)
                          /\ mt' = [mt EXCEPT ![t].pc = "wait"]
                     ELSE /\ mt' = [mt EXCEPT ![t].pc = "done",
                                              ![t].outcome = "error"]
                          /\ UNCHANGED mcp_page
             [] T.pc = "wait" ->
                  /\ mt' = [mt EXCEPT ![t].pc = "xpath"]
                  /\ UNCHANGED mcp_page
             [] OTHER ->
                  /\ \E valid \in BOOLEAN :
                        mt' = [mt EXCEPT
                                 ![t].seen = Append(@, mcp_page),
                                 ![t].pc = IF valid \/ McpNextTier(T.pc) = "all_failed"
                                           THEN "done" ELSE McpNextTier(T.pc),
                                 ![t].outcome = IF valid THEN "valid"
                                                ELSE IF McpNextTier(T.pc) = "all_failed"
                                                     THEN "not_valid" ELSE "none"]
                  /\ UNCHANGED mcp_page
    /\ UNCHANGED <<varsSession, varsLegacy, varsOld>>

-----------------------------------------------------------------------------
(* EnhancedStoreInfoIntegration (store_integration.py): the adapter that    *)
(* hands the manager's results to the older callers as plain mappings       *)

LegacyKeys == {"store_name", "store_id", "store_url"}

\* {"store_name": None, "store_id": None, "store_url": None}
NullEntry == [store_name |-> None, store_id |-> None, store_url |-> None]

NoLegacy == [u \in { } |-> NullEntry]

LegacyInit ==
    /\ lg_pc = "idle"
    /\ lg_how = "none"
    /\ lg_urls = << >>
    /\ lg_ret = NoLegacy
    /\ lg_single = NullEntry

\* a plausible slip: only the fields that were found are copied
LegacyEntry_OmitNull(info) ==
    [k \in {f \in LegacyKeys : info[f].some} |-> info[k]]

\* lines 120-125: the entry built from a StoreInfo
LegacyEntry(info) ==
    [store_name |-> info.store_name, store_id |-> info.store_id,
     store_url |-> info.store_url]

\* lines 118-125: "for url, store_info in store_results.items()"
LegacyFormat(store_results) ==
    [u \in DOMAIN store_results |-> LegacyEntry(store_results[u])]

\* lines 139-144: the mapping returned when the manager call raised
LegacyOnException(urls) == [u \in Range(urls) |-> NullEntry]

\* fetch_single_store_info: "results.get(product_url, {...: None})"
fetch_single_store_info(results, product_url) ==
    IF product_url \in DOMAIN results THEN results[product_url] ELSE NullEntry

\* what fetch_single_store_info returns when the call was made through it
LegacySingle(results, urls) ==
    IF Len(urls) = 1 THEN fetch_single_store_info(results, urls[1]) ELSE NullEntry

\* "if not product_urls: return {}": the adapter call ends without a call
\* of the manager
LegacyEmpty ==
    /\ lg_pc = "idle"
    /\ op = "idle"
    /\ op' = "legacy"
    /\ call_pc' = "done"
    /\ lg_pc' = "done"
    /\ lg_how' = "empty"
    /\ lg_urls' = << >>
    /\ lg_ret' = NoLegacy
    /\ lg_single' = NullEntry
    /\ UNCHANGED <<arg_urls, arg_preferred, arg_kwargs, tasks, semaphore,
                   batch_calls, batch_outcome, batch_map, ret_map>>
    /\ UNCHANGED <<varsRegistry, varsConfig, varsInfo, varsTiers>>
    /\ UNCHANGED <<reg_calls, varsLoop, varsSingle, varsSession, varsMcp>>

\* scrape_multiple_stores_with_fallback raises, as it does with a TypeError
\* when **kwargs holds a preferred_method or product_urls of its own: the
\* except clause answers for every URL
LegacyRaise ==
    /\ lg_pc = "idle"
    /\ op = "idle"
    /\ \E urls \in UrlLists \ {<< >>} :
          /\ arg_urls' = urls
          /\ lg_urls' = urls
          /\ lg_ret' = LegacyOnException(urls)
          /\ lg_single' = LegacySingle(LegacyOnException(urls), urls)
    /\ op' = "multi"
    /\ call_pc' = "raised"
    /\ lg_pc' = "done"
    /\ lg_how' = "raised"
    /\ UNCHANGED <<arg_preferred, arg_kwargs, tasks, semaphore, batch_calls,
                   batch_outcome, batch_map, ret_map>>
    /\ UNCHANGED <<varsRegistry, varsConfig, varsInfo, varsTiers>>
    /\ UNCHANGED <<reg_calls, varsLoop, varsSingle, varsSession, varsMcp>>

\* the manager call returned: its results are converted
LegacyReturn ==
    /\ lg_pc = "idle"
    /\ op = "multi"
    /\ call_pc = "done"
    /\ lg_pc' = "done"
    /\ lg_how' = "returned"
    /\ lg_urls' = arg_urls
    /\ lg_ret' = LegacyFormat(ret_map)
    /\ lg_single' = LegacySingle(LegacyFormat(ret_map), arg_urls)
    /\ UNCHANGED <<varsSession, varsMcp, varsOld>>

-----------------------------------------------------------------------------
(* async_fetch_store_info_batch (store_integration.py): the replacement for *)
(* fetch_store_info_batch, from product ids to URLs and back                *)

\* the longest list of product ids
MaxIds == 3

\* the product ids: "" and two others
WrapperIds == {<< >>, <<"1005001">>, <<"1005002">>}

IdLists == UNION {[1..n -> WrapperIds] : n \in 0..MaxIds}

\* f"https://www.aliexpress.com/item/{product_id}.html"
ItemUrl(product_id) ==
    <<"https://www.aliexpress.com/item/">> \o product_id \o <<".html">>

\* "[f"..." for product_id in product_ids if product_id]"
WrapperUrls(product_ids) ==
    LET kept == SelectSeq(product_ids, LAMBDA p : p # << >>)
    IN  [k \in 1..Len(kept) |-> ItemUrl(kept[k])]

\* the entry of a URL whose store was found: it names the URL it was scraped from
ScrapedEntry(url) ==
    [store_name |-> Str(<<"Store of ">> \o url),
     store_id |-> Str(<<"id of ">> \o url),
     store_url |-> Str(<<"https://www.aliexpress.com/store/of/">> \o url)]

\* what fetch_store_info_enhanced(product_urls) can return: {} for an empty
\* list, else an entry for some of the URLs (a URL whose task crashed has
\* none), found or all-None; all of them all-None when the manager raised
EnhancedResults(urls) ==
    IF urls = << >> THEN {NoLegacy}
    ELSE {[u \in K |-> IF u \in F THEN ScrapedEntry(u) ELSE NullEntry] :
             K \in SUBSET Range(urls), F \in SUBSET Range(urls)}

\* results.get(url, {"store_name": None, "store_id": None, "store_url": None})
ResultsGet(results, url) ==
    IF url \in DOMAIN results THEN results[url] ELSE NullEntry

RECURSIVE FinalFrom(_, _, _, _, _)
\* "for i, product_id in enumerate(product_ids)": the k-th id takes the
\* entry of the k-th URL if there is one, else the all-None entry
FinalFrom(product_ids, urls, results, k, final_results) ==
    IF k > Len(product_ids) THEN final_results
    ELSE FinalFrom(product_ids, urls, results, k + 1,
                   MapPut(final_results, product_ids[k],
                          IF k <= Len(urls) THEN ResultsGet(results, urls[k])
                          ELSE NullEntry))

WrapperInit ==
    /\ aw_ids = << >>
    /\ aw_urls = << >>
    /\ aw_results = NoLegacy
    /\ aw_final = NoLegacy
    /\ aw_pc = "idle"

\* async_fetch_store_info_batch(product_ids, session): the URLs are built
WrapperCall ==
    /\ aw_pc = "idle"
    /\ \E product_ids \in IdLists :
          /\ aw_ids' = product_ids
          /\ aw_urls' = WrapperUrls(product_ids)
    /\ aw_pc' = "fetch"
    /\ UNCHANGED <<aw_results, aw_final>>
    /\ UNCHANGED <<si, si_pc, si_valid, varsDict, varsHref, varsGather, varsRetry>>
    /\ UNCHANGED varsTiers
    /\ UNCHANGED varsManager
    /\ UNCHANGED varsDirect

\* results = loop.run_until_complete(fetch_store_info_enhanced(product_urls, ...)),
\* on the running loop's side in a thread of its own
WrapperFetch ==
    /\ aw_pc = "fetch"
    /\ \E results \in EnhancedResults(aw_urls) : aw_results' = results
    /\ aw_pc' = "convert"
    /\ UNCHANGED <<aw_ids, aw_urls, aw_final>>
    /\ UNCHANGED <<si, si_pc, si_valid, varsDict, varsHref, varsGather, varsRetry>>
    /\ UNCHANGED varsTiers
    /\ UNCHANGED varsManager
    /\ UNCHANGED varsDirect

\* the URL-keyed results are turned into final_results, keyed by product id
WrapperConvert ==
    /\ aw_pc = "convert"
    /\ aw_final' = FinalFrom(aw_ids, aw_urls, aw_results, 1, NoLegacy)
    /\ aw_pc' = "done"
    /\ UNCHANGED <<aw_ids, aw_urls, aw_results>>
    /\ UNCHANGED <<si, si_pc, si_valid, varsDict, varsHref, varsGather, varsRetry>>
    /\ UNCHANGED varsTiers
    /\ UNCHANGED varsManager
    /\ UNCHANGED varsDirect

-----------------------------------------------------------------------------

\* the state of the direct calls before any was made
DirectInit ==
    RegInit /\ LoopInit /\ SingleInit /\ SessionInit /\ McpInit /\ LegacyInit

-----------------------------------------------------------------------------
(* Specifications *)

\* the state after construction: no StoreInfo built, no extraction started,
\* an empty registry and an unconfigured manager
Init ==
    /\ InfoInit /\ DictInit /\ HrefInit /\ TiersInit /\ ManagerInit /\ DirectInit
    /\ GatherInit /\ RetryInit /\ WrapperInit

NextInfo == Construct \/ EvalIsValid

SpecInfo == Init /\ [][NextInfo]_vars

NextDict == ConstructAny \/ ToDict \/ FromDict

SpecDict == Init /\ [][NextDict]_vars

NextHref == FindLink \/ MatchStoreId

SpecHref == Init /\ [][NextHref]_vars

NextGather ==
    \/ GatherCall
    \/ \E k \in 1..Len(gb_tasks) : GatherTaskStart(k)
    \/ \E k \in 1..Len(gb_tasks) : GatherTaskEnd(k)
    \/ GatherCollect
    \/ GatherWake

SpecGather == Init /\ [][NextGather]_vars

NextRetry ==
    \/ RetryCall
    \/ \E k \in 1..Len(rs_tasks) : RetryEnter(k)
    \/ \E k \in 1..Len(rs_tasks) : RetryAttempt(k)
    \/ RetryCollect
    \/ RetryWake

SpecRetry == Init /\ [][NextRetry]_vars

NextWrapper == WrapperCall \/ WrapperFetch \/ WrapperConvert

SpecWrapper == Init /\ [][NextWrapper]_vars

NextTiers == ExtractStart \/ ExtractTier

SpecTiers == Init /\ [][NextTiers]_vars

NextFallback ==
    \/ RegisterBackend
    \/ RegisterOther
    \/ SetDefaultMethod
    \/ SetFallbackChain
    \/ StartSingle
    \/ \E t \in 1..MaxUrls : TaskAttempt(t)
    \/ \E t \in 1..MaxUrls : TaskExhausted(t)

SpecFallback == Init /\ [][NextFallback]_vars

NextBatch ==
    \/ RegisterBackend
    \/ SetupDefaultFallbackChain
    \/ MultiEmpty
    \/ MultiIndividual
    \/ MultiBatch
    \/ \E t \in 1..MaxUrls : TaskAcquire(t)
    \/ \E t \in 1..MaxUrls : TaskAttempt(t)
    \/ \E t \in 1..MaxUrls : TaskExhausted(t)
    \/ MultiCollect

SpecBatch == Init /\ [][NextBatch]_vars

NextSemaphore ==
    \/ RegisterBackend
    \/ SetupDefaultFallbackChain
    \/ MultiIndividualMany
    \/ \E t \in 1..MaxFanoutUrls : TaskAcquire(t)
    \/ \E t \in 1..MaxFanoutUrls : TaskAttempt(t)
    \/ \E t \in 1..MaxFanoutUrls : TaskExhausted(t)
    \/ MultiCollect

SpecSemaphore == Init /\ [][NextSemaphore]_vars

\* a step of the per-URL path: a task takes a permit, a backend invocation
\* ends, a loop that is over returns, or gather returns
PerUrlStep ==
    \/ \E t \in 1..MaxFanoutUrls : TaskAcquire(t)
    \/ \E t \in 1..MaxFanoutUrls : TaskAttempt(t)
    \/ \E t \in 1..MaxFanoutUrls : TaskExhausted(t)
    \/ MultiCollect

\* the scheduling of the event loop, every backend invocation ending: while
\* a step of the per-URL path can be taken, one is taken
SemaphoreFairness == WF_vars(PerUrlStep)

SpecSemaphoreFair == Init /\ [][NextSemaphore]_vars /\ SemaphoreFairness

NextBatchLoop == BatchCallStart \/ BatchIteration \/ BatchCallReturn

SpecBatchLoop == Init /\ [][NextBatchLoop]_vars

NextSingle == SingleStart \/ SingleStep

SpecSingle == Init /\ [][NextSingle]_vars

NextSession ==
    \/ SessionCall
    \/ Disconnect
    \/ \E t \in 1..Len(tk) :
          \/ SessionEnter(t)
          \/ CleanupStep(t)
          \/ LaunchStep(t)
          \/ PageStep(t)
          \/ GatherStep(t)

SpecSession == Init /\ [][NextSession]_vars

NextMcp == McpBatchStart \/ \E t \in 1..Len(mt) : McpStep(t)

SpecMcp == Init /\ [][NextMcp]_vars

NextLegacy ==
    \/ RegisterBackend
    \/ SetupDefaultFallbackChain
    \/ LegacyEmpty
    \/ LegacyRaise
    \/ MultiIndividual
    \/ MultiBatch
    \/ \E t \in 1..MaxUrls : TaskAcquire(t)
    \/ \E t \in 1..MaxUrls : TaskAttempt(t)
    \/ \E t \in 1..MaxUrls : TaskExhausted(t)
    \/ MultiCollect
    \/ LegacyReturn

SpecLegacy == Init /\ [][NextLegacy]_vars

NextRegistry == DirectRegister \/ DirectGetScraper \/ DirectClearInstances

SpecRegistry == Init /\ [][NextRegistry]_vars

\* nothing was registered or configured and no manager call was made
ManagerUntouched ==
    /\ op = "idle"
    /\ scrapers = [m \in Methods |-> NoClass]
    /\ fallback_chain = << >>
    /\ default_method = NoMethod

\* one call that stores results by URL: a call on the manager, or a call of
\* a backend's scrape_multiple_stores
NextKeyed ==
    \/ gb_pc = "idle" /\ NextBatch
    \/ ManagerUntouched /\ NextGather

SpecKeyed == Init /\ [][NextKeyed]_vars

-----------------------------------------------------------------------------
(* C1 - C4: scrape_store_with_fallback *)

TaskIds == 1..Len(tasks)

\* the position of a method in a duplicate-free candidate list
PositionIn(seq, m) == CHOOSE i \in 1..Len(seq) : seq[i] = m

IsValidReturn(a) == a.kind = "return" /\ is_valid(a.info)

IsRaise(a) == a.kind \in {"raise", "construct_raise"}

\* the methods scrape_single_store / get_scraper was invoked for, in order
MethodsOf(attempts) == [k \in 1..Len(attempts) |-> attempts[k].method]

\* C1: once the backend at some position returned a valid StoreInfo, that
\* StoreInfo is what the call returns and no later backend is invoked: a valid
\* return is always the last invocation of its call.
C1_FirstSuccessWins ==
    \A t \in TaskIds :
        \A k \in 1..Len(tasks[t].attempts) :
            IsValidReturn(tasks[t].attempts[k]) =>
                /\ k = Len(tasks[t].attempts)
                /\ tasks[t].pc = "returned"
                /\ tasks[t].result = tasks[t].attempts[k].info

\* the second candidate returned a valid result while a third, registered,
\* candidate was still to come; it was never invoked
C1_Witness ==
    /\ op = "single"
    /\ call_pc = "done"
    /\ Len(tasks[1].unique_methods) = 3
    /\ Range(tasks[1].unique_methods) \subseteq list_available_methods
    /\ Len(tasks[1].attempts) = 2
    /\ ~IsValidReturn(tasks[1].attempts[1])
    /\ IsValidReturn(tasks[1].attempts[2])
    /\ tasks[1].result = tasks[1].attempts[2].info

\* the attempts of a task follow the candidate order, each candidate at most once
InCandidateOrder(T) ==
    /\ \A k \in 1..Len(T.attempts) :
          T.attempts[k].method \in Range(T.unique_methods)
    /\ \A j, k \in 1..Len(T.attempts) :
          j < k => PositionIn(T.unique_methods, T.attempts[j].method)
                   < PositionIn(T.unique_methods, T.attempts[k].method)

WasAttempted(T, m) == \E k \in 1..Len(T.attempts) : T.attempts[k].method = m

\* C2 as stated: after a candidate raised, the exception does not reach the
\* caller and every later registered candidate is attempted.
C2_AsStated ==
    \A t \in TaskIds :
        LET T == tasks[t] IN
        /\ \A k \in 1..Len(T.attempts) :
              (IsRaise(T.attempts[k]) /\ k = Len(T.attempts))
                  => T.pc \in {"running", "returned"}
        /\ T.pc = "returned" =>
            \A k \in 1..Len(T.attempts) :
                IsRaise(T.attempts[k]) =>
                    \A j \in 1..Len(T.unique_methods) :
                        ( /\ j > PositionIn(T.unique_methods, T.attempts[k].method)
                          /\ T.unique_methods[j] \in list_available_methods )
                        => WasAttempted(T, T.unique_methods[j])

\* C2 amended: after a candidate raised, the exception does not reach the
\* caller and the later registered candidates are attempted in candidate
\* order until one of them returns a valid result; only candidates that come
\* after a valid result are left out.
C2_FallbackResilience ==
    \A t \in TaskIds :
        LET T == tasks[t] IN
        /\ \A k \in 1..Len(T.attempts) :
              (IsRaise(T.attempts[k]) /\ k = Len(T.attempts))
                  => T.pc \in {"running", "returned"}
        /\ InCandidateOrder(T)
        /\ T.pc = "returned" =>
            \A k \in 1..Len(T.attempts) :
                IsRaise(T.attempts[k]) =>
                    \A j \in 1..Len(T.unique_methods) :
                        ( /\ j > PositionIn(T.unique_methods, T.attempts[k].method)
                          /\ T.unique_methods[j] \in list_available_methods )
                        => \/ WasAttempted(T, T.unique_methods[j])
                           \/ \E i \in 1..Len(T.attempts) :
                                /\ IsValidReturn(T.attempts[i])
                                /\ PositionIn(T.unique_methods, T.attempts[i].method) < j

\* the first candidate raised from scrape_single_store and both later
\* candidates were then attempted
C2_Witness ==
    /\ op = "single"
    /\ call_pc = "done"
    /\ Len(tasks[1].attempts) = 3
    /\ tasks[1].attempts[1].kind = "raise"
    /\ MethodsOf(tasks[1].attempts) = tasks[1].unique_methods

\* the error the loop recorded last, as the attempts show it
LastRecordedError(T) ==
    IF T.attempts = << >> THEN <<"None">>
    ELSE LET a == T.attempts[Len(T.attempts)]
         IN  IF IsRaise(a) THEN a.msg
             ELSE IF Truthy(a.info.error) THEN a.info.error.val
             ELSE <<"No valid store data returned">>

\* text ends with part
EndsWith(text, part) ==
    /\ Len(part) <= Len(text)
    /\ SubSeq(text, Len(text) - Len(part) + 1, Len(text)) = part

\* C3: when every candidate is exhausted without a valid result (also with no
\* candidate at all), the result is not valid, is tagged "fallback_failed",
\* has a non-empty error that includes the last recorded error, and carries
\* the input URL as source_url.
C3_Exhaustion ==
    \A t \in TaskIds :
        LET T == tasks[t] IN
        ( /\ T.pc = "returned"
          /\ \A k \in 1..Len(T.attempts) : ~IsValidReturn(T.attempts[k]) )
        => /\ ~is_valid(T.result)
           /\ T.result.extraction_method = Str(<<"fallback_failed">>)
           /\ T.result.error.some
           /\ Len(T.result.error.val) > 0
           /\ EndsWith(T.result.error.val, LastRecordedError(T))
           /\ T.result.source_url = Str(arg_urls[t])

\* two backends were tried, the last one raised, and the call returned the
\* failure result
C3_Witness ==
    /\ op = "single"
    /\ call_pc = "done"
    /\ Len(tasks[1].attempts) = 2
    /\ tasks[1].attempts[2].kind = "raise"
    /\ tasks[1].result.extraction_method = Str(<<"fallback_failed">>)

FirstIndex(seq, m) == CHOOSE i \in 1..Len(seq) :
                          seq[i] = m /\ \A j \in 1..(i - 1) : seq[j] # m

\* u is L with every later duplicate removed, first occurrences in order
IsFirstOccurrences(u, L) ==
    /\ Range(u) = Range(L)
    /\ \A i, j \in 1..Len(u) : i < j => u[i] # u[j]
    /\ \A i, j \in 1..Len(u) :
          i < j => FirstIndex(L, u[i]) < FirstIndex(L, u[j])

\* C4: the candidates of a call are [preferred_method if given, else
\* default_method] followed by fallback_chain, later duplicates removed; the
\* methods are tried in that order, each at most once; and the chain
\* [A, B, A, C] with preferred_method = B gives [B, A, C].
C4_CandidateOrder ==
    \A t \in TaskIds :
        LET T == tasks[t]
            head == IF arg_preferred # NoMethod THEN <<arg_preferred>>
                    ELSE IF default_method # NoMethod THEN <<default_method>>
                    ELSE << >>
        IN  /\ IsFirstOccurrences(T.unique_methods, head \o fallback_chain)
            /\ InCandidateOrder(T)
            /\ ( /\ fallback_chain = <<"mcp_playwright", "traditional_playwright",
                                       "mcp_playwright", "requests_based">>
                 /\ arg_preferred = "traditional_playwright" )
               => T.unique_methods = <<"traditional_playwright", "mcp_playwright",
                                       "requests_based">>

\* set_fallback_chain([A, B, A, C]), preferred_method = B, and all three
\* backends were tried: B, then A, then C
C4_Witness ==
    /\ op = "single"
    /\ call_pc = "done"
    /\ fallback_chain = <<"mcp_playwright", "traditional_playwright",
                          "mcp_playwright", "requests_based">>
    /\ arg_preferred = "traditional_playwright"
    /\ MethodsOf(tasks[1].attempts) = <<"traditional_playwright", "mcp_playwright",
                                        "requests_based">>

-----------------------------------------------------------------------------
(* C5 - C8: scrape_multiple_stores_with_fallback *)

\* the call is a batch call for N >= 1 URLs whose method to use is registered
\* and whose backend reports supports_batch_processing
BatchCapableCall ==
    /\ op = "multi"
    /\ arg_urls # << >>
    /\ MethodToUse(arg_preferred) \in list_available_methods
    /\ SupportsBatch(scrapers[MethodToUse(arg_preferred)])

\* scrape_single_store was awaited for the task (a constructor that raised in
\* get_scraper made no such call)
MadeSingleCall(T) ==
    \E k \in 1..Len(T.attempts) : T.attempts[k].kind # "construct_raise"

\* the backend's scrape_multiple_stores was invoked exactly once, with the
\* whole input list
OneBatchCallWithAllUrls ==
    batch_calls = <<[method |-> MethodToUse(arg_preferred), urls |-> arg_urls]>>

\* C5 as stated: for a batch-capable method to use, the backend's
\* scrape_multiple_stores is invoked exactly once with the whole list and no
\* scrape_single_store call is made through the manager.
C5_AsStated ==
    BatchCapableCall =>
        /\ OneBatchCallWithAllUrls
        /\ \A t \in TaskIds : ~MadeSingleCall(tasks[t])

\* C5 amended: for a batch-capable method to use, the backend's
\* scrape_multiple_stores is invoked exactly once with the whole list; when
\* that call returns, its mapping is what the manager returns and no per-URL
\* task (hence no scrape_single_store call) is ever started; single-URL calls
\* are made only after the batch call raised.
C5_BatchDelegation ==
    BatchCapableCall =>
        /\ OneBatchCallWithAllUrls
        /\ batch_outcome \in {"returned", "raised"}
        /\ batch_outcome = "returned" => ( call_pc = "done" /\ tasks = << >> )
        /\ (\E t \in TaskIds : MadeSingleCall(tasks[t]))
              => batch_outcome = "raised"

\* a batch call for two URLs returned a mapping with a valid entry for each,
\* and no per-URL task exists
C5_Witness ==
    /\ BatchCapableCall
    /\ Len(arg_urls) = 2
    /\ arg_urls[1] # arg_urls[2]
    /\ batch_outcome = "returned"
    /\ call_pc = "done"
    /\ tasks = << >>
    /\ \A i \in 1..2 : arg_urls[i] \in DOMAIN ret_map /\ is_valid(ret_map[arg_urls[i]])

\* the last task of the gather for the URL of task t
LastTaskFor(t) ==
    CHOOSE j \in TaskIds :
        /\ tasks[j].url = tasks[t].url
        /\ tasks[j].pc = "returned"
        /\ \A k \in TaskIds :
              (tasks[k].url = tasks[t].url /\ tasks[k].pc = "returned") => k <= j

\* C6: when the backend's scrape_multiple_stores raised, the exception does
\* not end the call: one scrape_store_with_fallback task per input URL is
\* run, with the same preferred_method (so over the same candidate order), and
\* once the call is over every task has ended and the returned mapping has an
\* entry, a result of that URL's tasks, for every URL whose task did not crash.
C6_BatchFallback ==
    batch_outcome = "raised" =>
        /\ call_pc \in {"fanout", "done"}
        /\ Len(tasks) = Len(arg_urls)
        /\ \A t \in TaskIds :
              /\ tasks[t].url = arg_urls[t]
              /\ tasks[t].unique_methods =
                    UniqueMethods(MethodsToTry(arg_preferred, default_method,
                                               fallback_chain))
              /\ InCandidateOrder(tasks[t])
        /\ call_pc = "done" =>
              \A t \in TaskIds :
                  /\ tasks[t].pc \in {"returned", "crashed"}
                  /\ tasks[t].pc = "returned" =>
                        /\ tasks[t].url \in DOMAIN ret_map
                        /\ ret_map[tasks[t].url] = tasks[LastTaskFor(t)].result

\* the batch call raised; of the two per-URL tasks one crashed and the other
\* returned a valid result, which is the only entry of the mapping
C6_Witness ==
    /\ batch_outcome = "raised"
    /\ call_pc = "done"
    /\ Len(tasks) = 2
    /\ tasks[1].pc = "crashed"
    /\ tasks[2].pc = "returned"
    /\ is_valid(tasks[2].result)
    /\ DOMAIN ret_map = {tasks[2].url}
    /\ ret_map[tasks[2].url] = tasks[2].result

\* C7 as stated (no per-URL task crashed): a call for a non-empty list returns
\* a mapping whose key set is the set of distinct input URLs, a failure being
\* an entry with is_valid false.
C7_AsStated ==
    ( /\ op = "multi"
      /\ call_pc = "done"
      /\ arg_urls # << >>
      /\ \A t \in TaskIds : tasks[t].pc # "crashed" )
    => DOMAIN ret_map = Range(arg_urls)

\* the preferred backend failed for every input URL: its batch call returned
\* an entry for each URL and none of them is valid
BatchFailedForEveryUrl ==
    /\ BatchCapableCall
    /\ batch_outcome = "returned"
    /\ DOMAIN ret_map = Range(arg_urls)
    /\ \A u \in DOMAIN ret_map : ~is_valid(ret_map[u])

\* C8 as stated: when the preferred batch-capable backend failed for every
\* input URL, every URL is resolved through scrape_store_with_fallback: there
\* is one per-URL task for each input URL.
C8_AsStated ==
    ( BatchFailedForEveryUrl /\ call_pc = "done" ) =>
        /\ Len(tasks) = Len(arg_urls)
        /\ \A t \in TaskIds : tasks[t].url = arg_urls[t]

-----------------------------------------------------------------------------
(* C11 - C14: StoreScraperRegistry *)

RegCallIds == 1..Len(reg_calls)

IsGet(k, m) == reg_calls[k].op = "get_scraper" /\ reg_calls[k].method = m

\* the registration table and the instance cache a call found
TableBefore(k) ==
    IF k = 1 THEN [m \in Methods |-> NoClass] ELSE reg_calls[k - 1].table

CacheBefore(k) ==
    IF k = 1 THEN [m \in Methods |-> NoInstance] ELSE reg_calls[k - 1].cache

\* calls j < k with no clear_instances between them
SameSpan(j, k) ==
    /\ j < k
    /\ \A c \in (j + 1)..(k - 1) : reg_calls[c].op # "clear_instances"

\* C11 as stated: between two consecutive clear_instances calls the factory
\* of a method is invoked at most once, every get_scraper of the method
\* returns the same instance, and the kwargs of every call after the first
\* are ignored.
C11_AsStated ==
    \A m \in Methods : \A j, k \in RegCallIds :
        (IsGet(j, m) /\ IsGet(k, m) /\ SameSpan(j, k)) =>
            /\ ~(reg_calls[j].constructed /\ reg_calls[k].constructed)
            /\ reg_calls[k].kind = "return" =>
                  reg_calls[k].instance = reg_calls[j].instance

\* C11 amended: between two consecutive clear_instances calls the factory of
\* a method is not invoked again once it has returned an instance (a
\* constructor that raised caches nothing and the next get_scraper invokes the
\* factory again); from then on every get_scraper of the method returns that
\* same instance, and the cached instance keeps the kwargs of the call that
\* constructed it, whatever kwargs later calls pass.
C11_SingletonCache ==
    \A m \in Methods :
        /\ \A k \in RegCallIds :
              (IsGet(k, m) /\ reg_calls[k].constructed
                /\ reg_calls[k].kind = "return") =>
                  reg_calls[k].cache[m] = [cls |-> reg_calls[k].cls,
                                           kwargs |-> reg_calls[k].kwargs]
        /\ \A j, k \in RegCallIds :
              (IsGet(j, m) /\ IsGet(k, m) /\ SameSpan(j, k)
                /\ reg_calls[j].kind = "return") =>
                  /\ ~reg_calls[k].constructed
                  /\ reg_calls[k].kind = "return"
                  /\ reg_calls[k].instance = reg_calls[j].instance
                  /\ reg_calls[k].cache[m] = reg_calls[j].cache[m]

\* a method was looked up without kwargs, which constructed its instance, and
\* looked up again with batch_size=1: the same instance came back, still
\* holding the kwargs of the first call
C11_Witness ==
    \E j, k \in RegCallIds :
        /\ IsGet(j, "mcp_playwright") /\ IsGet(k, "mcp_playwright")
        /\ SameSpan(j, k)
        /\ reg_calls[j].constructed /\ reg_calls[j].kind = "return"
        /\ reg_calls[j].kwargs = NoKwargs
        /\ reg_calls[k].kwargs = Kwargs(TRUE, 1)
        /\ reg_calls[k].instance = j
        /\ instances["mcp_playwright"].kwargs = NoKwargs

\* C12: get_scraper for a method that was never registered raises the lookup
\* error, constructs no backend and leaves the registration table and the
\* instance cache as they were.
C12_UnregisteredLookup ==
    \A m \in Methods : \A k \in RegCallIds :
        (IsGet(k, m) /\ TableBefore(k)[m] = NoClass) =>
            /\ reg_calls[k].kind = "lookup_raise"
            /\ ~reg_calls[k].constructed
            /\ reg_calls[k].instance = 0
            /\ reg_calls[k].table = TableBefore(k)
            /\ reg_calls[k].cache = CacheBefore(k)

\* with one method registered and its instance cached, another method, never
\* registered, was looked up
C12_Witness ==
    \E k \in RegCallIds :
        /\ IsGet(k, "requests_based")
        /\ reg_calls[k].kind = "lookup_raise"
        /\ scrapers["requests_based"] = NoClass
        /\ scrapers["mcp_playwright"] # NoClass
        /\ instances["mcp_playwright"] # NoInstance

IsRegister(k) == reg_calls[k].op = "register"

\* C13: register(m, F) leaves m mapped to F, whatever m was mapped to, and
\* every other registration unchanged; so registering the same pair twice
\* gives the table that registering it once gave.
C13_RegisterLastWriteWins ==
    \A k \in RegCallIds :
        IsRegister(k) =>
            /\ reg_calls[k].table[reg_calls[k].method] = reg_calls[k].cls
            /\ \A o \in Methods \ {reg_calls[k].method} :
                  reg_calls[k].table[o] = TableBefore(k)[o]
            /\ ( /\ k > 1
                 /\ IsRegister(k - 1)
                 /\ reg_calls[k - 1].method = reg_calls[k].method
                 /\ reg_calls[k - 1].cls = reg_calls[k].cls )
               => reg_calls[k].table = reg_calls[k - 1].table

\* the same pair was registered twice and then another class for the same
\* method, while a second method stayed registered
C13_Witness ==
    /\ Len(reg_calls) = 4
    /\ \A k \in 1..4 : IsRegister(k)
    /\ reg_calls[1].method = "requests_based"
    /\ \A k \in 2..4 : reg_calls[k].method = "mcp_playwright"
    /\ reg_calls[2].cls = MCPClass
    /\ reg_calls[3].cls = MCPClass
    /\ reg_calls[4].cls = TraditionalClass
    /\ scrapers["mcp_playwright"] = TraditionalClass
    /\ scrapers["requests_based"] = reg_calls[1].cls

\* the instances get_scraper handed back before call k
InstancesBefore(k) ==
    {reg_calls[j].instance : j \in 1..(k - 1)} \ {0}

\* C14: clear_instances empties the instance cache and leaves the
\* registration table (hence list_available_methods) unchanged; the next
\* get_scraper of a registered method calls the class again, and the instance
\* it returns is a new one, holding the kwargs of that call.
C14_ClearInstances ==
    \A c \in RegCallIds :
        reg_calls[c].op = "clear_instances" =>
            /\ \A m \in Methods : reg_calls[c].cache[m] = NoInstance
            /\ reg_calls[c].table = TableBefore(c)
            /\ \A m \in Methods : \A k \in RegCallIds :
                  ( /\ c < k
                    /\ IsGet(k, m)
                    /\ TableBefore(k)[m] # NoClass
                    /\ \A j \in (c + 1)..(k - 1) : ~IsGet(j, m) )
                  => /\ reg_calls[k].constructed
                     /\ reg_calls[k].kind = "return" =>
                          /\ reg_calls[k].instance \notin InstancesBefore(k)
                          /\ reg_calls[k].cache[m] =
                                [cls |-> reg_calls[k].cls,
                                 kwargs |-> reg_calls[k].kwargs]

\* an instance was cached, the cache was cleared, and the next lookup of the
\* method, with other kwargs, returned a different instance
C14_Witness ==
    /\ Len(reg_calls) = 4
    /\ IsRegister(1)
    /\ IsGet(2, "mcp_playwright") /\ reg_calls[2].instance = 2
    /\ reg_calls[2].kwargs = NoKwargs
    /\ reg_calls[3].op = "clear_instances"
    /\ IsGet(4, "mcp_playwright") /\ reg_calls[4].instance = 4
    /\ instances["mcp_playwright"].kwargs = Kwargs(TRUE, 1)
    /\ list_available_methods = {"mcp_playwright"}

-----------------------------------------------------------------------------
(* C15, C16: the fallback chain and unregistered candidates *)

\* C15 as stated: the fallback_chain the manager stores holds no method twice
\* (set_fallback_chain having removed every later duplicate of its argument).
C15_AsStated ==
    \A i, j \in 1..Len(fallback_chain) :
        i # j => fallback_chain[i] # fallback_chain[j]

\* the candidates the loop of task T has gone past
PassedCandidates(T) ==
    {T.unique_methods[j] : j \in 1..(T.idx - 1)}

\* C16: a candidate that is not registered is skipped without raising:
\* get_scraper is never called for it, no backend is constructed or invoked
\* for it, and the other candidates are tried in their order: of the
\* candidates the loop has gone past, exactly the registered ones were tried.
C16_SkipUnregistered ==
    /\ \A m \in Methods : scrapers[m] = NoClass => instances[m] = NoInstance
    /\ \A t \in TaskIds :
          LET T == tasks[t] IN
          /\ \A k \in 1..Len(T.attempts) : scrapers[T.attempts[k].method] # NoClass
          /\ InCandidateOrder(T)
          /\ \A m \in PassedCandidates(T) :
                WasAttempted(T, m) <=> scrapers[m] # NoClass
          /\ op = "single" => T.pc \in {"running", "returned"}

\* of three candidates the second is not registered: the first was tried and
\* failed, the second was skipped, the third was tried
C16_Witness ==
    /\ op = "single"
    /\ call_pc = "done"
    /\ Len(tasks[1].unique_methods) = 3
    /\ scrapers[tasks[1].unique_methods[2]] = NoClass
    /\ MethodsOf(tasks[1].attempts) =
          <<tasks[1].unique_methods[1], tasks[1].unique_methods[3]>>

-----------------------------------------------------------------------------
(* C17: the semaphore of the per-URL path *)

\* the scrape_store_with_fallback executions in flight
InFlight == {t \in TaskIds : tasks[t].pc = "running"}

\* C17: in the per-URL path at most 3 scrape_store_with_fallback executions
\* are in flight at any moment, whatever the number of URLs and the order in
\* which tasks end; the permits left are the 3 minus the executions in flight.
C17_BoundedConcurrency ==
    op = "multi" =>
        /\ Cardinality(InFlight) <= 3
        /\ call_pc = "fanout" => semaphore = 3 - Cardinality(InFlight)

\* four URLs: three resolutions are in flight, each having had a backend
\* invoked or skipped, and the fourth waits for a permit
C17_Witness ==
    /\ op = "multi"
    /\ call_pc = "fanout"
    /\ Len(tasks) = 4
    /\ Cardinality(InFlight) = 3
    /\ semaphore = 0
    /\ \A t \in InFlight : tasks[t].idx > 1
    /\ \E t \in TaskIds : tasks[t].pc = "waiting"

-----------------------------------------------------------------------------
(* C18, C19: the batch loop of a backend *)

\* the batches processed and the delays slept, each in order
LoopBatches == SelectSeq(bl_events, LAMBDA e : e.ev = "batch")

LoopDelays == SelectSeq(bl_events, LAMBDA e : e.ev = "delay")

\* ceil(n / b) for b >= 1
CeilDiv(n, b) == (n + b - 1) \div b

BatchSizesOf(batches) == [k \in 1..Len(batches) |-> batches[k].hi - batches[k].lo + 1]

\* C18: for batch_size b >= 1 a finished scrape_multiple_stores over N URLs
\* has processed exactly ceil(N/b) batches, consecutive slices of the list,
\* all of size b except possibly the last, with one delay between each pair of
\* consecutive batches and none after the last (ceil(N/b) - 1 delays when
\* there is a batch); N = 7 and b = 3 give batches of 3, 3, 1 and two delays.
C18_BatchesAndDelays ==
    (bl_pc = "done" /\ LoopBatchSize >= 1) =>
        LET n == Len(bl_urls)
            b == LoopBatchSize
            nb == CeilDiv(n, b)
        IN  /\ Len(LoopBatches) = nb
            /\ \A k \in 1..nb :
                  /\ LoopBatches[k].lo = (k - 1) * b + 1
                  /\ LoopBatches[k].hi = Min(k * b, n)
            /\ \A k \in 1..(nb - 1) : BatchSizesOf(LoopBatches)[k] = b
            /\ nb >= 1 => /\ BatchSizesOf(LoopBatches)[nb] \in 1..b
                          /\ Len(LoopDelays) = nb - 1
                          /\ Len(bl_events) = 2 * nb - 1
            /\ \A q \in 1..Len(bl_events) :
                  bl_events[q].ev = (IF q % 2 = 1 THEN "batch" ELSE "delay")
            /\ (n = 7 /\ b = 3) =>
                  /\ BatchSizesOf(LoopBatches) = <<3, 3, 1>>
                  /\ Len(LoopDelays) = 2

\* seven URLs with batch_size=3: batch, delay, batch, delay, batch
C18_Witness ==
    /\ bl_pc = "done"
    /\ Len(bl_urls) = 7
    /\ bl_kwargs = Kwargs(TRUE, 3)
    /\ bl_events = <<BatchEvent(1, 3), DelayEvent, BatchEvent(4, 6), DelayEvent,
                     BatchEvent(7, 7)>>

\* the URLs whose processing has ended
ProcessedUrls == {bl_urls[p] : p \in 1..Len(bl_kinds)}

\* C19 as stated: a URL whose processing raised has an entry with error set
\* and extraction_method "<backend>_batch_error".
C19_AsStated ==
    \A p \in 1..Len(bl_kinds) :
        bl_kinds[p] = "failed" =>
            /\ bl_urls[p] \in DOMAIN bl_results
            /\ Truthy(bl_results[bl_urls[p]].error)
            /\ bl_results[bl_urls[p]].extraction_method =
                  Str(<<ClassPrefix(bl_cls), "_batch_error">>)

\* the tag of a URL whose processing raised: the batch loop of the
\* traditional backend tags it; in the MCP backend scrape_single_store has
\* already turned the exception into its own error result
FailureTag(cls) ==
    IF cls = TraditionalClass
    THEN Str(<<"traditional_playwright", "_batch_error">>)
    ELSE Str(<<"mcp_playwright", "_error">>)

\* C19 amended: an exception raised while processing one URL becomes a
\* non-valid StoreInfo for that URL with error set, tagged
\* "traditional_playwright_batch_error" by the traditional backend and
\* "mcp_playwright_error" by the MCP backend; it never aborts the call (the
\* call raises only before its loop), every URL of the batches reached so far
\* has been processed and has an entry, and a finished call with
\* batch_size >= 1 has an entry for every input URL.
C19_PerUrlFailure ==
    /\ bl_pc = "raised" => bl_kinds = << >>
    /\ Len(bl_kinds) = Min(bl_i, Len(bl_urls))
    /\ DOMAIN bl_results = ProcessedUrls
    /\ \A p \in 1..Len(bl_kinds) :
          bl_kinds[p] = "failed" =>
              /\ Truthy(bl_results[bl_urls[p]].error)
              /\ ~is_valid(bl_results[bl_urls[p]])
              /\ bl_results[bl_urls[p]].source_url = Str(bl_urls[p])
              /\ bl_results[bl_urls[p]].extraction_method = FailureTag(bl_cls)
    /\ (bl_pc = "done" /\ LoopBatchSize >= 1) =>
          DOMAIN bl_results = {bl_urls[p] : p \in 1..Len(bl_urls)}

\* the traditional backend, four URLs in batches of two: the first URL
\* raised, the second of the same batch and both of the next were extracted
C19_Witness ==
    /\ bl_pc = "done"
    /\ bl_cls = TraditionalClass
    /\ bl_kwargs = Kwargs(TRUE, 2)
    /\ bl_kinds = <<"failed", "found", "found", "found">>
    /\ bl_results[bl_urls[1]].extraction_method =
          Str(<<"traditional_playwright", "_batch_error">>)
    /\ \A p \in 2..4 : is_valid(bl_results[bl_urls[p]])

-----------------------------------------------------------------------------
(* C20: scrape_single_store never raises *)

\* the steps that failed with an exception their own code does not catch
SingleFailures ==
    {k \in 1..Len(ss_steps) :
        ss_steps[k].failed /\ ~Swallowed(ss_cls, ss_steps[k].step)}

\* C20: scrape_single_store never raises to its caller; when session
\* initialisation, page creation, navigation, the wait or page close failed,
\* it returns a non-valid StoreInfo with error set (the message of the last
\* failure), extraction_method "<backend>_error" and source_url the requested
\* URL; when nothing failed it returns the result of the extraction.
C20_SingleNeverRaises ==
    /\ ss_outcome # "raised"
    /\ ss_pc = "done" =>
          /\ ss_outcome = "returned"
          /\ IF SingleFailures = { }
             THEN ss_ret = ss_info
             ELSE LET last == CHOOSE k \in SingleFailures :
                                 \A j \in SingleFailures : j <= k
                  IN  /\ Truthy(ss_ret.error)
                      /\ EndsWith(ss_ret.error.val, ss_steps[last].msg)
                      /\ ~is_valid(ss_ret)
                      /\ ss_ret.extraction_method =
                            Str(<<ClassPrefix(ss_cls), "_error">>)
                      /\ ss_ret.source_url = Str(ss_url)

\* the traditional backend extracted a valid StoreInfo and page.close() then
\* failed: the call returned the error StoreInfo
C20_Witness ==
    /\ ss_pc = "done"
    /\ ss_cls = TraditionalClass
    /\ Len(ss_steps) = 6
    /\ \A k \in 1..5 : ~ss_steps[k].failed
    /\ is_valid(ss_info)
    /\ ss_steps[6].step = "close" /\ ss_steps[6].failed
    /\ ss_outcome = "returned"
    /\ ss_ret.extraction_method = Str(<<"traditional_playwright", "_error">>)

-----------------------------------------------------------------------------
(* C21 - C24: pages and the session of the traditional backend; the page of *)
(* the MCP backend                                                         *)

Ended == {t \in 1..Len(tk) : tk[t].pc = "done"}

\* the pages opened by task t or, for scrape_multiple_stores, by the
\* coroutines of its batches
PagesOpenedBy(t) ==
    {p \in 1..Len(pages) : pages[p].owner = t \/ pages[p].owner \in ChildrenOf(t)}

PagesClosedBy(t) == {p \in PagesOpenedBy(t) : pages[p].closed}

\* C21: when scrape_single_store, scrape_multiple_stores or a
\* _scrape_single_with_page of the traditional backend has ended, by a valid
\* result, a non-valid result or an exception of the navigation or of the
\* extraction, it has closed as many pages as it opened and none of its
\* pages is open.
C21_PagesClosed ==
    \A t \in Ended :
       /\ Cardinality(PagesOpenedBy(t)) = Cardinality(PagesClosedBy(t))
       /\ \A p \in PagesOpenedBy(t) : pages[p].closed
       /\ tk[t].kind # "multi" => Cardinality(PagesOpenedBy(t)) <= 1

\* scrape_multiple_stores returned after a batch of two URLs: the navigation
\* of one raised, the extraction of the other was valid, both pages are closed
C21_Witness ==
    \E t \in Ended :
       /\ tk[t].kind = "multi"
       /\ tk[t].outcome = "returned"
       /\ \E c, d \in ChildrenOf(t) :
             /\ tk[c].outcome = "raised" /\ tk[c].page # NoRef
             /\ pages[tk[c].page].url = << >>
             /\ tk[d].outcome = "valid" /\ tk[d].page # NoRef
       /\ Cardinality(PagesOpenedBy(t)) = Len(SessionUrls)
       /\ \A p \in PagesOpenedBy(t) : pages[p].closed

\* C22: as stated.  Every extraction tier of a task runs against a page that
\* this very task navigated to its own URL: for the MCP backend the page each
\* evaluate call saw, for the traditional backend the page of the task.
C22_AsStated ==
    /\ \A t \in 1..Len(mt) :
          \A k \in 1..Len(mt[t].seen) :
             mt[t].seen[k] = [url |-> mt[t].url, by |-> t]
    /\ \A t \in 1..Len(tk) :
          tk[t].result # "none" =>
             /\ pages[tk[t].page].owner = t
             /\ pages[tk[t].page].url = tk[t].url

\* C23: as stated.  While no browser of the instance has lost its
\* connection, the instance has launched at most one browser, whatever the
\* calls and their interleaving.
C23_AsStated ==
    (\A b \in 1..Len(browsers) : is_connected(b)) => Len(browsers) <= 1

\* the awaited calls of _initialize_browser and _cleanup_browser
InitPcs == {"entry", "ctx_close", "br_close", "pw_stop", "pw_start", "launch",
            "new_context", "route"}

\* C24: as stated.  An operation that found the browser disconnected when it
\* started has, once it is past _initialize_browser, closed that browser and
\* left no reference to it or to its context, and opens its pages in a
\* context of a browser launched since.
C24_AsStated ==
    \A t \in 1..Len(tk) :
       (tk[t].old # NoRef /\ tk[t].pc \notin InitPcs) =>
          /\ browsers[tk[t].old] = "closed"
          /\ tb_browser # tk[t].old
          /\ tb_context # NoRef => contexts[tb_context].browser # tk[t].old
          /\ \A p \in PagesOpenedBy(t) :
                contexts[pages[p].ctx].browser # tk[t].old

-----------------------------------------------------------------------------
(* C25: the legacy adapter *)

\* C25: every entry the adapter returns has exactly the keys store_name,
\* store_id and store_url.  The entry of a URL whose manager result is not
\* valid holds None three times; when the manager call raised, every URL of
\* the call has such an entry; fetch_single_store_info answers with such an
\* entry when the manager call raised, when its URL is absent from the
\* manager's result and when its result is not valid.
C25_LegacyShape ==
    lg_pc = "done" =>
       /\ \A u \in DOMAIN lg_ret : DOMAIN lg_ret[u] = LegacyKeys
       /\ lg_how = "returned" =>
             /\ DOMAIN lg_ret = DOMAIN ret_map
             /\ \A u \in DOMAIN lg_ret :
                   ~is_valid(ret_map[u]) => lg_ret[u] = NullEntry
       /\ lg_how = "raised" =>
             /\ DOMAIN lg_ret = Range(lg_urls)
             /\ \A u \in DOMAIN lg_ret : lg_ret[u] = NullEntry
       /\ Len(lg_urls) = 1 =>
             /\ DOMAIN lg_single = LegacyKeys
             /\ (\/ lg_how = "raised"
                 \/ lg_urls[1] \notin DOMAIN ret_map
                 \/ ~is_valid(ret_map[lg_urls[1]])) => lg_single = NullEntry

\* the manager answered a call for two URLs, one with a store and one
\* with the result of a failed fallback, and the adapter converted both
C25_Witness ==
    /\ lg_pc = "done"
    /\ lg_how = "returned"
    /\ \E u, w \in DOMAIN lg_ret :
          /\ is_valid(ret_map[u])
          /\ lg_ret[u].store_name = ret_map[u].store_name
          /\ lg_ret[u].store_name # None
          /\ ret_map[w].extraction_method = Str(<<"fallback_failed">>)
          /\ lg_ret[w] = NullEntry

-----------------------------------------------------------------------------
(* C9 *)

\* C9: the tiers run in the order XPath, CSS, alternative; a tier runs only
\* if every tier before it returned a non-valid StoreInfo (tier 1 valid: 2 and
\* 3 never run; tier 2 valid: 3 never runs); and the StoreInfo returned is the
\* first valid tier result.
C9_TierOrder ==
    /\ \E n \in 0..3 : ex_calls = SubSeq(<<1, 2, 3>>, 1, n)
    /\ Len(ex_results) = Len(ex_calls)
    /\ \A k \in 1..Len(ex_results) :
          is_valid(ex_results[k]) =>
              /\ k = Len(ex_results)
              /\ ex_pc = "done"
              /\ ex_ret = ex_results[k]

\* tier 1 was not valid, tier 2 was, and the call returned tier 2's result
\* without running tier 3
C9_Witness ==
    /\ ex_pc = "done"
    /\ ex_calls = <<1, 2>>
    /\ ~is_valid(ex_results[1])
    /\ is_valid(ex_results[2])
    /\ ex_ret = ex_results[2]

-----------------------------------------------------------------------------
(* C10 *)

\* "present" read as: the optional field holds a string (is not None)
NotNone(x) == x.some

\* "present" read as: the field holds a non-empty string
NonEmpty(x) == x.some /\ Len(x.val) > 0

\* C10 as stated, a field counting as present when it is not None: is_valid
\* is true iff (store_name is present or store_id is present) and error is
\* absent.
C10_AsStated ==
    si_pc = "evaluated" =>
        (si_valid <=> ( (NotNone(si.store_name) \/ NotNone(si.store_id))
                        /\ ~NotNone(si.error) ))

\* C10 amended: is_valid is true iff (store_name or store_id is a non-empty
\* string) and error is None or the empty string.
C10_IsValid ==
    si_pc = "evaluated" =>
        (si_valid <=> ( (NonEmpty(si.store_name) \/ NonEmpty(si.store_id))
                        /\ ~NonEmpty(si.error) ))

\* an evaluated StoreInfo whose name is "" and whose id is a real id, valid
C10_Witness ==
    /\ si_pc = "evaluated"
    /\ si.store_name = Str(<< >>)
    /\ si.store_id = Str(<<"x">>)
    /\ si.error = Str(<< >>)
    /\ si_valid

-----------------------------------------------------------------------------
(* C26 - C28: the results of the tiers *)

TierName(k) == CASE k = 1 -> "xpath" [] k = 2 -> "css" [] OTHER -> "alternative"

NoTierValid == \A k \in 1..Len(ex_results) : ~is_valid(ex_results[k])

\* C26: when _extract_store_info_with_fallback has ended without a valid
\* tier result, each of the three tiers was invoked exactly once and the
\* StoreInfo returned is not valid, has the error "All extraction methods
\* failed to find store information", the extraction_method
\* "<backend>_all_failed" and the product URL as source_url.
C26_AllFailed ==
    (ex_pc = "done" /\ NoTierValid) =>
       /\ ex_calls = <<1, 2, 3>>
       /\ ~is_valid(ex_ret)
       /\ ex_ret.error =
             Str(<<"All extraction methods failed to find store information">>)
       /\ ex_ret.extraction_method = Str(<<ex_backend, "_all_failed">>)
       /\ ex_ret.source_url = Str(ex_url)
       /\ ex_ret.store_name = None /\ ex_ret.store_id = None
       /\ ex_ret.store_url = None

\* the MCP backend ran its three tiers: the first raised, the second found
\* nothing, the third raised; the all-failed StoreInfo came back
C26_Witness ==
    /\ ex_pc = "done"
    /\ ex_backend = "mcp_playwright"
    /\ ex_evals = <<"raise", "notfound", "raise">>
    /\ ex_ret.extraction_method = Str(<<"mcp_playwright", "_all_failed">>)

RaisedTiers == {k \in 1..Len(ex_evals) : ex_evals[k] = "raise"}

\* what each tier hands back when its page evaluation raised
TierCaught(k) ==
    /\ ~is_valid(ex_results[k])
    /\ Truthy(ex_results[k].error)
    /\ ex_results[k].extraction_method =
          Str(<<ex_backend, "_", TierName(k), "_error">>)
    /\ ex_results[k].source_url = Str(ex_url)

\* C27: as stated.  A tier whose page evaluation raised hands back a
\* non-valid StoreInfo tagged "<backend>_<tier>_error", and once the call
\* has ended every later tier has been attempted.
C27_AsStated ==
    \A k \in RaisedTiers :
       /\ TierCaught(k)
       /\ ex_pc = "done" => ex_calls = <<1, 2, 3>>

\* C27: a tier whose page evaluation raised hands back a non-valid
\* StoreInfo tagged "<backend>_<tier>_error" with its error set; the
\* exception does not leave the tier; the fallback goes on as after any
\* non-valid tier: once the call has ended the next tier has been attempted,
\* and the one after it unless the next tier was valid.
C27_TierCatches ==
    \A k \in RaisedTiers :
       /\ TierCaught(k)
       /\ (k = Len(ex_calls) /\ k < 3) => ex_pc = TierName(k + 1)
       /\ (ex_pc = "done" /\ k < 3) =>
             /\ Len(ex_calls) > k
             /\ ex_calls[k + 1] = k + 1
             /\ (k = 1 /\ ~is_valid(ex_results[2])) => ex_calls = <<1, 2, 3>>

\* the evaluation of the XPath tier raised, the CSS tier ran and found the
\* store, and the call returned it without running the third tier
C27_Witness ==
    /\ ex_pc = "done"
    /\ ex_evals = <<"raise", "found">>
    /\ ex_results[1].extraction_method =
          Str(<<ex_backend, "_", "xpath", "_error">>)
    /\ is_valid(ex_results[2])
    /\ ex_ret = ex_results[2]

\* "error is set if and only if is_valid is false"
ErrorIffNotValid(s) == NotNone(s.error) <=> ~is_valid(s)

\* C28: as stated.  Every StoreInfo produced by a tier, by
\* _extract_store_info_with_fallback, by a backend's scrape_single_store or
\* scrape_multiple_stores or by the manager has its error set exactly when
\* it is not valid.
C28_AsStated ==
    /\ \A k \in 1..Len(ex_results) : ErrorIffNotValid(ex_results[k])
    /\ ex_pc = "done" => ErrorIffNotValid(ex_ret)
    /\ ss_outcome = "returned" => ErrorIffNotValid(ss_ret)
    /\ \A u \in DOMAIN bl_results : ErrorIffNotValid(bl_results[u])
    /\ \A u \in DOMAIN ret_map : ErrorIffNotValid(ret_map[u])

-----------------------------------------------------------------------------
(* C29: the round trip through a dict *)

SameFields(a, b) ==
    /\ a.store_name = b.store_name
    /\ a.store_id = b.store_id
    /\ a.store_url = b.store_url
    /\ a.source_url = b.source_url
    /\ a.extraction_method = b.extraction_method
    /\ a.error = b.error
    /\ a.metadata = b.metadata

\* C29: StoreInfo.from_dict(s.to_dict()) has the same store_name, store_id,
\* store_url, source_url, extraction_method, error and metadata as s, and
\* the same is_valid.
C29_RoundTrip ==
    rt_pc = "back" =>
       /\ SameFields(rt_back, rt_s)
       /\ is_valid(rt_back) <=> is_valid(rt_s)

\* a StoreInfo with an empty name, an id, an error and a metadata entry went
\* through to_dict and from_dict
C29_Witness ==
    /\ rt_pc = "back"
    /\ rt_s.store_name = Str(<< >>)
    /\ rt_s.store_id = Str(<<"x">>)
    /\ rt_s.error = Str(<<"x">>)
    /\ rt_s.metadata = <<<<"css_selector", ".store-name">>>>
    /\ rt_dict.error = Str(<<"x">>)
    /\ rt_back = rt_s

-----------------------------------------------------------------------------
(* C30: the store id of an href *)

\* the positions at which "store/" stands with a digit after it
Occurrences(h) ==
    {i \in 1..Len(h) :
        /\ i + 6 <= Len(h)
        /\ \A k \in 1..6 : h[i + k - 1] = StoreSlash[k]
        /\ h[i + 6] \in Digits}

First(S) == CHOOSE i \in S : \A j \in S : i <= j

\* run is the maximal run of digits of h that starts at position p
MaximalRunAt(h, p, run) ==
    /\ Len(run) >= 1
    /\ p + Len(run) - 1 <= Len(h)
    /\ \A k \in 1..Len(run) : run[k] = h[p + k - 1] /\ run[k] \in Digits
    /\ p + Len(run) <= Len(h) => h[p + Len(run)] \notin Digits

\* C30: the store id recovered from an href is the maximal run of one or
\* more digits right after the first "store/" that is followed by a digit,
\* kept as the string it is, and the store url is the href; an href without
\* such an occurrence (or no link at all) gives no store id and no store
\* url; "https://x.com/store/998877?foo=1" gives "998877".
C30_StoreId ==
    hr_pc = "matched" =>
       /\ IF hr_href.some /\ Occurrences(hr_href.val) # {}
          THEN /\ hr_id.some
               /\ MaximalRunAt(hr_href.val, First(Occurrences(hr_href.val)) + 6,
                               hr_id.val)
               /\ hr_url = hr_href
          ELSE hr_id = None /\ hr_url = None
       /\ hr_href = Str(ExampleHref) => hr_id = Str(<<"9", "9", "8", "8", "7", "7">>)

\* an href in which "store/" stands twice before digits, "store/0store/998877":
\* the id is the run after the first, "0", kept as a string
C30_Witness ==
    /\ hr_pc = "matched"
    /\ hr_href = Str(StoreSlash \o <<"0">> \o StoreSlash
                     \o <<"9", "9", "8", "8", "7", "7">>)
    /\ hr_id = Str(<<"0">>)
    /\ hr_url = hr_href

-----------------------------------------------------------------------------
(* C31: no fallback in the batch path *)

\* C31: when the chosen backend's scrape_multiple_stores returned, the call
\* is over with exactly the mapping it returned, whether its entries are
\* valid or not; that backend's batch method is the only thing that was
\* invoked: no per-URL task was started.
C31_NoBatchFallback ==
    (op = "multi" /\ batch_outcome = "returned") =>
       /\ call_pc = "done"
       /\ ret_map = batch_map
       /\ tasks = << >>
       /\ batch_calls =
             <<[method |-> MethodToUse(arg_preferred), urls |-> arg_urls]>>

\* the batch method returned a mapping without a valid entry for two URLs,
\* and the manager returned it
C31_Witness ==
    /\ op = "multi"
    /\ batch_outcome = "returned"
    /\ Len(arg_urls) = 2
    /\ DOMAIN ret_map = {arg_urls[1], arg_urls[2]}
    /\ arg_urls[1] # arg_urls[2]
    /\ \A u \in DOMAIN ret_map : ~is_valid(ret_map[u])
    /\ fallback_chain # << >>

-----------------------------------------------------------------------------
(* C32: results are stored by URL *)

\* the manager's per-URL path: the entry of u is the StoreInfo a task
\* started for u returned
KeyedByTask ==
    (op = "multi" /\ call_pc = "done" /\ tasks # << >>) =>
       \A u \in DOMAIN ret_map :
          /\ ret_map[u].source_url = Str(u)
          /\ \E t \in 1..Len(tasks) :
                /\ tasks[t].url = u
                /\ tasks[t].pc = "returned"
                /\ ret_map[u] = tasks[t].result

\* a backend's batch method: the entry of u is built from what a task
\* started for u ended with
KeyedByBatch ==
    \A u \in DOMAIN gb_results :
       /\ gb_results[u].source_url = Str(u)
       /\ \E p \in 1..Len(gb_urls) :
             /\ gb_urls[p] = u
             /\ gb_st[p] = "done"
             /\ gb_results[u] = GatherEntry(gb_cls, u, gb_computed[p])

\* C32: whatever order the concurrent tasks end in, the StoreInfo stored
\* under the key u, by the manager's per-URL path and by a backend's
\* scrape_multiple_stores, is the one computed by a task started for u, and
\* its source_url is u.
C32_KeyedByUrl == KeyedByTask /\ KeyedByBatch

\* a batch of two different URLs whose second task ended first, both with a
\* store: each URL has its own result
C32_Witness ==
    /\ gb_pc = "done"
    /\ Len(gb_urls) = 2
    /\ gb_urls[1] # gb_urls[2]
    /\ gb_order = <<2, 1>>
    /\ \A p \in 1..2 :
          /\ is_valid(gb_results[gb_urls[p]])
          /\ gb_results[gb_urls[p]].source_url = Str(gb_urls[p])

\* the per-URL path of the manager for two different URLs: both tasks
\* returned and each URL has the result of its own task
C32_WitnessManager ==
    /\ op = "multi"
    /\ call_pc = "done"
    /\ Len(tasks) = 2
    /\ tasks[1].url # tasks[2].url
    /\ \A t \in 1..2 : tasks[t].pc = "returned" /\ ret_map[tasks[t].url] = tasks[t].result

-----------------------------------------------------------------------------
(* C33, C40: the standalone retry utility *)

\* C33: as stated.  For one product, retry_single_product_store calls
\* store_scraper_manager.scrape_store_with_fallback at most max_retries
\* times.
C33_AsStated == \A p \in 1..Len(rs_calls) : rs_calls[p] <= rs_max

\* the entries of updated_products that stand for the product at position p
EntriesOf(p) == {k \in 1..Len(rs_updated) : rs_updated[k].id = rs_products[p].id}

\* C40: as stated.  When retry_store_information has returned, the list it
\* returned has exactly one entry for each input product, whatever the
\* tasks of the products ended with, and so the length of the input.
C40_AsStated ==
    rs_pc = "done" =>
       /\ Len(rs_updated) = Len(rs_products)
       /\ \A p \in 1..Len(rs_products) : Cardinality(EntriesOf(p)) = 1

-----------------------------------------------------------------------------
(* C34: the parallelism of a batch *)

\* the input positions whose task has started and not ended
Processing == {p \in 1..Len(gb_st) : gb_st[p] = "running"}

\* the number (from 0) of the batch the input position p belongs to
BatchOf(p) == (p - 1) \div gb_bsize

\* C34: in a backend's scrape_multiple_stores with batch_size b >= 1, at
\* most b URLs are being processed at any moment, and a URL whose task has
\* started belongs to a batch before which every URL of the earlier batches
\* has ended and every earlier inter-batch delay has elapsed.
C34_BatchParallelism ==
    gb_pc # "idle" =>
       /\ Cardinality(Processing) <= gb_bsize
       /\ \A p \in 1..Len(gb_st) :
             gb_st[p] # "pending" =>
                /\ gb_slept >= BatchOf(p)
                /\ \A q \in 1..(BatchOf(p) * gb_bsize) : gb_st[q] = "done"

\* four URLs with batch_size=2: the first batch has ended, the delay has
\* elapsed, and both URLs of the second batch are being processed
C34_Witness ==
    /\ gb_pc = "gather"
    /\ gb_bsize = 2
    /\ gb_st = <<"done", "done", "running", "running">>
    /\ gb_slept = 1
    /\ gb_i = 2

-----------------------------------------------------------------------------
(* C35: a crashed task in the per-URL path *)

PerUrlDone == op = "multi" /\ call_pc = "done" /\ tasks # << >>

CrashedTasks == {t \in 1..Len(tasks) : tasks[t].pc = "crashed"}

ReturnedTasks == {t \in 1..Len(tasks) : tasks[t].pc = "returned"}

\* the last task of the list that returned for the URL of task t
LastReturnedFor(t) ==
    CHOOSE s \in ReturnedTasks :
       /\ tasks[s].url = tasks[t].url
       /\ \A r \in ReturnedTasks : tasks[r].url = tasks[t].url => r <= s

\* C35: as stated.  Once the per-URL path is over, the URL of a task that
\* ended with an exception is not a key of the mapping, and the URL of every
\* other task is.
C35_AsStated ==
    PerUrlDone =>
       /\ \A t \in CrashedTasks : tasks[t].url \notin DOMAIN ret_map
       /\ \A t \in ReturnedTasks : tasks[t].url \in DOMAIN ret_map

\* C35: the per-URL path ends with every task either returned or ended with
\* an exception; the keys of the mapping are the URLs for which a task
\* returned, each with the result of the last such task, so a URL is absent
\* exactly when every task started for it ended with an exception, and a
\* task that ended with an exception takes away no entry of another URL.
C35_CrashIsolated ==
    PerUrlDone =>
       /\ CrashedTasks \cup ReturnedTasks = 1..Len(tasks)
       /\ Len(tasks) = Len(arg_urls)
       /\ DOMAIN ret_map = {tasks[t].url : t \in ReturnedTasks}
       /\ \A t \in ReturnedTasks :
             ret_map[tasks[t].url] = tasks[LastReturnedFor(t)].result
       /\ \A t \in CrashedTasks :
             tasks[t].url \in DOMAIN ret_map =>
                \E s \in ReturnedTasks : tasks[s].url = tasks[t].url

\* the per-URL path, entered without a batch call, for two different URLs:
\* the first task ended with an exception, the second returned, and the
\* mapping holds the second URL only
C35_Witness ==
    /\ PerUrlDone
    /\ batch_outcome = "none"
    /\ Len(tasks) = 2
    /\ tasks[1].url # tasks[2].url
    /\ CrashedTasks = {1}
    /\ ReturnedTasks = {2}
    /\ DOMAIN ret_map = {tasks[2].url}

-----------------------------------------------------------------------------
(* C36: the check of the context after _initialize_browser *)

\* no awaited call of the instance has raised so far
NoCallRaised == \A u \in 1..Len(tk) : tk[u].outcome \notin {"error", "raised"}

\* C36: as stated.  While no awaited call has raised, a scrape_single_store
\* call never goes from its entry straight to the "Browser context not
\* initialized" error: _initialize_browser has no awaited call that could
\* fail on that path, so such a step is the failed check of the context.
C36_AsStated ==
    [][\A t \in 1..Len(tk) :
          (NoCallRaised /\ Len(tk') = Len(tk) /\ tk[t].kind = "single"
             /\ tk[t].pc = "entry")
          => ~(tk'[t].pc = "done" /\ tk'[t].outcome = "error")]_vars

-----------------------------------------------------------------------------
(* C37: register and the instance cache *)

\* no clear_instances call among the calls j+1 .. k-1
NoClearBetween(j, k) ==
    \A c \in (j + 1)..(k - 1) : reg_calls[c].op # "clear_instances"

\* C37: register leaves the instance cache as it was; the instance cached
\* for a method when the method is registered again is the one every later
\* get_scraper of the method returns, without calling a class, until
\* clear_instances is called; and a method with a cached instance is always
\* a registered method.
C37_RegisterKeepsCache ==
    /\ \A k \in RegCallIds :
          IsRegister(k) =>
             /\ reg_calls[k].cache = CacheBefore(k)
             /\ LET m == reg_calls[k].method
                IN  CacheBefore(k)[m] # NoInstance =>
                       \A j \in RegCallIds :
                          (k < j /\ IsGet(j, m) /\ NoClearBetween(k, j)) =>
                             /\ reg_calls[j].kind = "return"
                             /\ ~reg_calls[j].constructed
                             /\ reg_calls[j].instance =
                                   LastConstruction(SubSeq(reg_calls, 1, k - 1), m)
                             /\ reg_calls[j].instance # 0
                             /\ reg_calls[j].cache[m] = CacheBefore(k)[m]
    /\ \A m \in Methods : instances[m] # NoInstance => scrapers[m] # NoClass
    /\ \A k \in RegCallIds : \A m \in Methods :
          reg_calls[k].cache[m] # NoInstance => reg_calls[k].table[m] # NoClass

\* a method was registered, looked up (which constructed its instance),
\* registered again with another class and looked up again: the instance of
\* the first lookup came back, built from the class registered first
C37_Witness ==
    /\ Len(reg_calls) = 4
    /\ IsRegister(1) /\ reg_calls[1].method = "mcp_playwright"
    /\ reg_calls[1].cls = MCPClass
    /\ IsGet(2, "mcp_playwright") /\ reg_calls[2].instance = 2
    /\ IsRegister(3) /\ reg_calls[3].method = "mcp_playwright"
    /\ reg_calls[3].cls = TraditionalClass
    /\ IsGet(4, "mcp_playwright") /\ reg_calls[4].instance = 2
    /\ scrapers["mcp_playwright"] = TraditionalClass
    /\ instances["mcp_playwright"].cls = MCPClass

-----------------------------------------------------------------------------
(* C38: async_fetch_store_info_batch *)

\* C38: as stated.  The mapping async_fetch_store_info_batch returns has,
\* for every product id of the list, the entry that fetch_store_info_enhanced
\* gave for the URL built from that id (the all-None entry if it gave none),
\* and the all-None entry for an empty id.
C38_AsStated ==
    aw_pc = "done" =>
       /\ DOMAIN aw_final = Range(aw_ids)
       /\ \A product_id \in Range(aw_ids) :
             aw_final[product_id] =
                IF product_id = << >> THEN NullEntry
                ELSE ResultsGet(aw_results, ItemUrl(product_id))

-----------------------------------------------------------------------------
(* C39: the per-URL path ends *)

InFanout == op = "multi" /\ call_pc = "fanout"

\* every permit is back, and task i resolved the i-th URL of the list and ended
AllResolved ==
    /\ semaphore = SemaphoreLimit
    /\ Len(tasks) = Len(arg_urls)
    /\ \A i \in 1..Len(tasks) :
          /\ tasks[i].url = arg_urls[i]
          /\ tasks[i].pc \in {"returned", "crashed"}
          /\ Len(tasks[i].attempts) <= Len(tasks[i].unique_methods)

\* C39: provided every backend invocation ends, every task of the per-URL
\* path that waits for the semaphore eventually holds a permit, the permits
\* held are always those of the executions in flight (a task that ended, by
\* a return or by an exception, holds none), and the call eventually
\* returns, with all permits back and one ended task per position of the
\* input list, for the URL at that position.
C39_PerUrlPathEnds ==
    /\ \A t \in 1..MaxFanoutUrls :
          (InFanout /\ t <= Len(tasks) /\ tasks[t].pc = "waiting")
             ~> (t <= Len(tasks) /\ tasks[t].pc # "waiting")
    /\ [](InFanout => semaphore = SemaphoreLimit - Cardinality(InFlight))
    /\ InFanout ~> (op = "multi" /\ call_pc = "done")
    /\ []((op = "multi" /\ call_pc = "done" /\ tasks # << >>) => AllResolved)

\* a call for four URLs, one more than there are permits, is over: one
\* task ended with an exception, the others returned, every permit is back
C39_Witness ==
    /\ op = "multi"
    /\ call_pc = "done"
    /\ Len(tasks) = SemaphoreLimit + 1
    /\ AllResolved
    /\ \E t \in TaskIds : tasks[t].pc = "crashed"
    /\ \E t \in TaskIds : tasks[t].pc = "returned"

====
